---- MODULE Spec2Model ----
(***************************************************************************)
(* Digital-twin backend: battery timeline simulator, discharge-time        *)
(* estimator and statistical-model singletons.                             *)
(*                                                                         *)
(* Numbers.  Energies (kWh, and kW over one hour) are integers counted in  *)
(* ten-thousandths (1 kWh = 10000).  Every input that reaches the          *)
(* simulators has been through round(x, 2), so inputs are multiples of 100 *)
(* and (level / 100) * capacity is exact.  Percentages are counted in      *)
(* hundredths of a percent (100 % = 10000).  round(x, 2) is modelled by    *)
(* exact round-half-to-even, the rule Python applies to the exact value.   *)
(* Timestamps are integer hours; ISO strings of naive datetimes are        *)
(* abstracted to the hour they denote.                                     *)
(***************************************************************************)
EXTENDS Integers, Sequences, FiniteSets, TLC

(***************************************************************************)
(* Bounds of the explored input space.                                     *)
(***************************************************************************)
MaxPredictions == 3

(***************************************************************************)
(* Arithmetic helpers.                                                     *)
(***************************************************************************)
Min(a, b) == IF a <= b THEN a ELSE b

Max(a, b) == IF a >= b THEN a ELSE b

Abs(a) == IF a >= 0 THEN a ELSE 0 - a

\* n / d rounded to the nearest integer, ties to even (d > 0).
RoundHalfEven(n, d) ==
  LET q == n \div d
      r == n % d
  IN  IF 2 * r < d THEN q
      ELSE IF 2 * r > d THEN q + 1
      ELSE IF q % 2 = 0 THEN q ELSE q + 1

\* round(x, 2) of an energy counted in ten-thousandths.
Round2(x) == 100 * RoundHalfEven(x, 100)

\* predictions[:n]
Take(s, n) == SubSeq(s, 1, Min(n, Len(s)))

(***************************************************************************)
(* prediction_service.py constants.                                        *)
(***************************************************************************)
TIMELINE_HOURS == 24

DEFAULT_INITIAL_BATTERY_LEVEL == 55

(***************************************************************************)
(* _flatten_blackout_windows: every interval of every schedule with        *)
(* start < end, stably sorted by start.                                    *)
(***************************************************************************)
ScheduleWindows(blackoutList, s) ==
  LET intervals == blackoutList[s].intervals
      all == [idx \in 1..Len(intervals) |->
                [start |-> intervals[idx].start,
                 end |-> intervals[idx].end,
                 schedule |-> s,
                 intervalIndex |-> idx - 1,
                 interval |-> intervals[idx]]]
  IN  SelectSeq(all, LAMBDA w : w.start < w.end)

RECURSIVE AllWindows(_, _)
AllWindows(blackoutList, s) ==
  IF s > Len(blackoutList) THEN << >>
  ELSE ScheduleWindows(blackoutList, s) \o AllWindows(blackoutList, s + 1)

\* Insert w behind every element whose start is <= w.start (stable).
InsertByStart(sorted, w) ==
  LET before == SelectSeq(sorted, LAMBDA x : x.start <= w.start)
      after == SelectSeq(sorted, LAMBDA x : x.start > w.start)
  IN  before \o <<w>> \o after

RECURSIVE SortedByStart(_, _)
SortedByStart(ws, n) ==
  IF n = 0 THEN << >>
  ELSE InsertByStart(SortedByStart(ws, n - 1), ws[n])

\* Variant: the windows stay in schedule order, unsorted.
_flatten_blackout_windows_unsorted(blackoutList) == AllWindows(blackoutList, 1)

_flatten_blackout_windows(blackoutList) ==
  LET ws == AllWindows(blackoutList, 1)
  IN  SortedByStart(ws, Len(ws))

\* any(window["start"] <= timestamp < window["end"] for window in windows)
BlackoutActive(ws, timestamp) ==
  \E k \in 1..Len(ws) : ws[k].start <= timestamp /\ timestamp < ws[k].end

(***************************************************************************)
(* State.                                                                  *)
(*   Battery Timeline Simulator (build_projected_solar_timeline): its four *)
(*   arguments, its locals windows / stored_energy / timeline, and the     *)
(*   position tl_pc of the call.                                           *)
(***************************************************************************)
VARIABLES predictions, battery_capacity_kwh, initial_battery_level, blackouts,
          windows, stored_energy, timeline, tl_pc

tlVars == <<predictions, battery_capacity_kwh, initial_battery_level, blackouts,
            windows, stored_energy, timeline, tl_pc>>

(***************************************************************************)
(*   Statistical model singletons (module-level objects): ml_model_service *)
(*   for production and ml_consumption_service for consumption, each with  *)
(*   its fields model and model_loaded.                                    *)
(***************************************************************************)
VARIABLES ml_model_service, ml_consumption_service

mlVars == <<ml_model_service, ml_consumption_service>>

(***************************************************************************)
(*   Discharge-Time Estimator (calculate_battery_discharge_time): its      *)
(*   arguments start_hour and date, its locals, the position dc_pc of the  *)
(*   call, its outcome dc_result, and the log `calls` of the collaborator  *)
(*   calls it has made (each with what the collaborator's upstream did).   *)
(***************************************************************************)
VARIABLES start_hour, date, dc_capacity_kwh, production_today, production_tomorrow,
          consumption_today, consumption_tomorrow, all_production, all_consumption,
          battery_level_kwh, minutes_to_empty, hour_index, dc_pc, dc_result, calls

dcVars == <<start_hour, date, dc_capacity_kwh, production_today, production_tomorrow,
            consumption_today, consumption_tomorrow, all_production, all_consumption,
            battery_level_kwh, minutes_to_empty, hour_index, dc_pc, dc_result, calls>>

(***************************************************************************)
(*   Process lifecycle (main.py lifespan): its position lc_pc, the module  *)
(*   global _db of database.py, the panel classifier's model, how often    *)
(*   each service's load_model has been called, and the requests served    *)
(*   since startup with the outcome of the last one.                       *)
(***************************************************************************)
VARIABLES lc_pc, db_connected, panel_classifier_model, load_calls,
          requests_served, last_outcome

lcVars == <<lc_pc, db_connected, panel_classifier_model, load_calls,
            requests_served, last_outcome>>

(***************************************************************************)
(*   Weather service (weather_service.py): the module globals              *)
(*   OPENWEATHER_API_KEY and _cached_snapshot, the clock read by           *)
(*   datetime.utcnow() (seconds), and the concurrent calls in progress.    *)
(***************************************************************************)
VARIABLES OPENWEATHER_API_KEY, _cached_snapshot, utcnow, wx_calls

wxVars == <<OPENWEATHER_API_KEY, _cached_snapshot, utcnow, wx_calls>>

(***************************************************************************)
(*   Hourly Forecast Generator and Blackout Adjuster                       *)
(*   (generate_hourly_predictions, apply_blackout_adjustments): the solar  *)
(*   context and the forecast day the generator works from, the hour of    *)
(*   datetime.utcnow(), the predictions generated so far, the last call of *)
(*   predict_production with its result, the schedules handed to the       *)
(*   adjuster and the list it returned.                                    *)
(***************************************************************************)
VARIABLES fc_pc, fc_context, fc_forecast, fc_now_hour, fc_predictions,
          fc_production_call, fc_blackouts, fc_adjusted

fcVars == <<fc_pc, fc_context, fc_forecast, fc_now_hour, fc_predictions,
            fc_production_call, fc_blackouts, fc_adjusted>>

(***************************************************************************)
(*   Energy-Flow Calculator (calculate_energy_flow): its four arguments    *)
(*   and the dictionary it returned.                                       *)
(***************************************************************************)
VARIABLES ef_pc, ef_args, ef_result

efVars == <<ef_pc, ef_args, ef_result>>

(***************************************************************************)
(*   Alert Engine (generate_alerts): its arguments, the hour of            *)
(*   datetime.utcnow(), and the list it returned.                          *)
(***************************************************************************)
VARIABLES al_pc, al_args, al_alerts

alVars == <<al_pc, al_args, al_alerts>>

(***************************************************************************)
(*   Request paths (get_solar_snapshot, get_predictions_bundle): the path  *)
(*   taken and its position, what the collaborators hold (configuration,   *)
(*   blackout schedules in the database, the forecast and the predictions  *)
(*   the generator will produce), the locals of the path, and the log of   *)
(*   the component calls made so far.                                      *)
(***************************************************************************)
VARIABLES pl_path, pl_pc, pl_world, pl_locals, pl_log

plVars == <<pl_path, pl_pc, pl_world, pl_locals, pl_log>>

(***************************************************************************)
(*   Configuration aggregator (system_config._aggregate_solar): the panel  *)
(*   documents it is given and the dictionary it returned.                 *)
(***************************************************************************)
VARIABLES cf_pc, cf_panels, cf_solar

cfVars == <<cf_pc, cf_panels, cf_solar>>

(***************************************************************************)
(*   get_weather_with_fallback (weather_service): the position of a call   *)
(*   and the dictionary it returned.  Its inner generate_weather_data call *)
(*   is call 1 of the weather provider above.                              *)
(***************************************************************************)
VARIABLES wf_pc, wf_weather

wfVars == <<wf_pc, wf_weather>>

\* The components added after the lifecycle.
laterVars == <<wxVars, fcVars, efVars, alVars, plVars>>

\* The components added after the request paths.
lastVars == <<cfVars, wfVars>>

vars == <<tlVars, mlVars, dcVars, lcVars, laterVars, lastVars>>

\* What each component leaves alone.
outsideTimeline == <<mlVars, dcVars, lcVars, laterVars, lastVars>>

outsideDischarge == <<tlVars, mlVars, lcVars, laterVars, lastVars>>

outsideLifecycle == <<tlVars, dcVars, laterVars, lastVars>>

outsideWeather == <<tlVars, mlVars, dcVars, lcVars, fcVars, efVars, alVars, plVars, lastVars>>

outsideForecast == <<tlVars, mlVars, dcVars, lcVars, wxVars, efVars, alVars, plVars, lastVars>>

outsideEnergyFlow == <<tlVars, mlVars, dcVars, lcVars, wxVars, fcVars, alVars, plVars, lastVars>>

outsideAlerts == <<tlVars, mlVars, dcVars, lcVars, wxVars, fcVars, efVars, plVars, lastVars>>

outsidePaths == <<tlVars, mlVars, dcVars, lcVars, wxVars, fcVars, efVars, alVars, lastVars>>

\* The values of a component's variables while another component is explored.
TimelineIdle ==
  /\ predictions = << >>
  /\ battery_capacity_kwh = 0
  /\ initial_battery_level = 0
  /\ blackouts = << >>
  /\ windows = << >>
  /\ stored_energy = 0
  /\ timeline = << >>
  /\ tl_pc = "idle"

DischargeIdle ==
  /\ start_hour = 0
  /\ date = "None"
  /\ dc_capacity_kwh = 0
  /\ production_today = << >>
  /\ production_tomorrow = << >>
  /\ consumption_today = << >>
  /\ consumption_tomorrow = << >>
  /\ all_production = << >>
  /\ all_consumption = << >>
  /\ battery_level_kwh = 0
  /\ minutes_to_empty = {}
  /\ hour_index = 0
  /\ dc_pc = "idle"
  /\ dc_result = [status |-> "none"]
  /\ calls = << >>

NoLoadCalls == [classifier |-> 0, production |-> 0, consumption |-> 0]

LifecycleIdle ==
  /\ lc_pc = "idle"
  /\ db_connected = FALSE
  /\ panel_classifier_model = "None"
  /\ load_calls = NoLoadCalls
  /\ requests_served = 0
  /\ last_outcome = [op |-> "none", ok |-> FALSE]

\* Concurrent calls of the weather service.
WxCallers == {1, 2}

\* _cached_snapshot: Optional[Dict] = None
NoSnapshot == [raw |-> "None", fetchedAt |-> 0]

NoCall ==
  [pc |-> "idle", entry |-> "none", force |-> FALSE, checked_at |-> 0,
   upstream |-> FALSE, requests |-> 0, response |-> "None", fetch |-> "none",
   snapshot |-> NoSnapshot, result |-> [kind |-> "none"]]

WeatherIdle ==
  /\ OPENWEATHER_API_KEY = "None"
  /\ _cached_snapshot = NoSnapshot
  /\ utcnow = 0
  /\ wx_calls = [c \in WxCallers |-> NoCall]

NoContext == [capacityKw |-> 0, panelEfficiency |-> 0, arrayAreaM2 |-> 0]

NoForecastDay == [cloudCover |-> 0]

NoProductionCall ==
  [solar_radiation |-> 0, temperature |-> 0, cloud_cover |-> 0, hour |-> 0,
   result |-> 0]

ForecastIdle ==
  /\ fc_pc = "idle"
  /\ fc_context = NoContext
  /\ fc_forecast = NoForecastDay
  /\ fc_now_hour = 0
  /\ fc_predictions = << >>
  /\ fc_production_call = NoProductionCall
  /\ fc_blackouts = << >>
  /\ fc_adjusted = << >>

NoFlowArgs ==
  [production |-> 0, consumption |-> 0, battery_charging |-> FALSE,
   battery_power_flow |-> 0]

EnergyFlowIdle ==
  /\ ef_pc = "idle"
  /\ ef_args = NoFlowArgs
  /\ ef_result = [status |-> "none"]

NoAlertArgs ==
  [predictions |-> << >>, battery_status |-> [chargeLevel |-> 0],
   weather_forecast |-> << >>, blackouts |-> << >>, now |-> 0]

AlertsIdle ==
  /\ al_pc = "idle"
  /\ al_args = NoAlertArgs
  /\ al_alerts = << >>

NoWorld ==
  [capacityKwh |-> 0, blackouts |-> << >>, forecast |-> << >>, predictions |-> << >>]

NoLocals == [status |-> "none"]

PathsIdle ==
  /\ pl_path = "none"
  /\ pl_pc = "idle"
  /\ pl_world = NoWorld
  /\ pl_locals = NoLocals
  /\ pl_log = << >>

\* The later components while another component is explored.
LaterIdle == WeatherIdle /\ ForecastIdle /\ EnergyFlowIdle /\ AlertsIdle /\ PathsIdle

NoSolar == [status |-> "none"]

ConfigIdle ==
  /\ cf_pc = "idle"
  /\ cf_panels = << >>
  /\ cf_solar = NoSolar

NoWeather == [kind |-> "none"]

FallbackIdle ==
  /\ wf_pc = "idle"
  /\ wf_weather = NoWeather

LastIdle == ConfigIdle /\ FallbackIdle

\* MLModelService.__init__ / MLConsumptionService.__init__
UnloadedService == [model |-> "None", model_loaded |-> FALSE]

SingletonsIdle ==
  /\ ml_model_service = UnloadedService
  /\ ml_consumption_service = UnloadedService

(***************************************************************************)
(* Inputs of the timeline simulator.                                       *)
(***************************************************************************)
\* (expectedProduction, expectedConsumption, confidence) of one hour.
PredictionValues ==
  { [expectedProduction |-> 0,      expectedConsumption |-> 180000, confidence |-> 95],
    [expectedProduction |-> 500000, expectedConsumption |-> 350000, confidence |-> 70],
    [expectedProduction |-> 300,    expectedConsumption |-> 0,      confidence |-> 40],
    [expectedProduction |-> 200,    expectedConsumption |-> 400,    confidence |-> 50],
    [expectedProduction |-> 100,    expectedConsumption |-> 100,    confidence |-> 83] }

\* Hourly predictions: entry i carries the timestamp of hour i - 1.
PredictionLists ==
  UNION { { [i \in 1..n |->
               [timestamp |-> i - 1,
                expectedProduction |-> f[i].expectedProduction,
                expectedConsumption |-> f[i].expectedConsumption,
                confidence |-> f[i].confidence]] :
            f \in [1..n -> PredictionValues] } : n \in 0..MaxPredictions }

\* The hours of a long list repeat a deficit, a surplus and a balanced hour.
PredictionCycle ==
  << [expectedProduction |-> 0,      expectedConsumption |-> 180000, confidence |-> 95],
     [expectedProduction |-> 500000, expectedConsumption |-> 350000, confidence |-> 70],
     [expectedProduction |-> 100,    expectedConsumption |-> 100,    confidence |-> 83] >>

\* n hourly predictions: the cycle from position `shift` for the first
\* TIMELINE_HOURS hours, then `tail` for every later hour.
LongPredictions(n, shift, tail) ==
  [i \in 1..n |->
     LET v == IF i <= TIMELINE_HOURS THEN PredictionCycle[((i + shift) % 3) + 1] ELSE tail
     IN  [timestamp |-> i - 1,
          expectedProduction |-> v.expectedProduction,
          expectedConsumption |-> v.expectedConsumption,
          confidence |-> v.confidence]]

\* 0.03 kWh, 1 kWh and 10 kWh (stored * 10000 stays within TLC's integers).
Capacities == {300, 10000, 100000}

\* Percent; the parameter is a caller-supplied float, not range-checked.
InitialLevels == {0, 50, DEFAULT_INITIAL_BATTERY_LEVEL, 100, 120}

\* An interval as blackout_service stores and maps it (start and end in
\* hours): durationMinutes is the whole minutes of end - start.
Interval(s, e) == [start |-> s, end |-> e, durationMinutes |-> 60 * (e - s)]

\* Schedule lists: none; one window; an empty interval beside a valid one;
\* two schedules whose windows overlap and arrive out of start order.
BlackoutLists ==
  { << >>,
    << [intervals |-> << Interval(0, 2) >>] >>,
    << [intervals |-> << Interval(2, 2), Interval(1, 2) >>] >>,
    << [intervals |-> << Interval(1, 4) >>], [intervals |-> << Interval(0, 2) >>] >> }

(***************************************************************************)
(* build_projected_solar_timeline: the pieces of one loop iteration.       *)
(***************************************************************************)
\* Variant: the level is read as a share of half the capacity.
InitialStoredEnergyDoubled(level, capacity) == (level * capacity) \div 50

\* stored_energy = (initial_battery_level / 100) * battery_capacity_kwh
InitialStoredEnergy(level, capacity) == (level * capacity) \div 100

\* Variant: the whole surplus is pushed into the battery.
EnergyToBatteryUncapped(net, capacity, stored) == net

\* net >= 0: energy_to_battery = min(net, available_capacity)
EnergyToBattery(net, capacity, stored) == Min(net, capacity - stored)

\* Variant: the surplus is exported again after charging the battery with it.
GridExportWholeSurplus(net, energy_to_battery) == net

\* net >= 0: grid_export = net - energy_to_battery
GridExport(net, energy_to_battery) == net - energy_to_battery

\* Variant: the battery gives the whole demand, whatever it holds.
EnergyFromBatteryWholeDemand(stored, demand) == demand

\* net < 0: energy_from_battery = min(stored_energy, demand)
EnergyFromBattery(stored, demand) == Min(stored, demand)

\* Variant: the blackout does not suppress the import.
GridImportIgnoringBlackout(blackout_active, demand, energy_from_battery) ==
  demand - energy_from_battery

\* net < 0: grid_import = 0.0 if blackout_active else demand - energy_from_battery
GridImport(blackout_active, demand, energy_from_battery) ==
  IF blackout_active THEN 0 ELSE demand - energy_from_battery

\* Variant: the percentage is not clamped.
BatteryLevelUnclamped(stored, capacity) == RoundHalfEven(stored * 10000, capacity)

\* battery_level = max(0.0, min(100.0, (stored_energy / capacity) * 100)), then
\* round(battery_level, 2); in hundredths of a percent.
BatteryLevel(stored, capacity) ==
  IF stored <= 0 THEN 0
  ELSE IF stored >= capacity THEN 10000
  ELSE RoundHalfEven(stored * 10000, capacity)

\* efficiency = max(75.0, min(96.0, 82 + (confidence - 70) * 0.25)), rounded
\* to 2 decimals; in hundredths of a percent.
Efficiency(confidence) == Max(7500, Min(9600, 8200 + (confidence - 70) * 25))

\* The locals of one iteration for `prediction` with `stored` kWh in the battery.
HourStep(prediction, capacity, stored, ws) ==
  LET production == Max(0, prediction.expectedProduction)
      consumption == Max(0, prediction.expectedConsumption)
      net == production - consumption
      blackout_active == BlackoutActive(ws, prediction.timestamp)
      energy_to_battery == EnergyToBattery(net, capacity, stored)
      demand == Abs(net)
      energy_from_battery == EnergyFromBattery(stored, demand)
  IN  IF net >= 0
      THEN [production |-> production, consumption |-> consumption,
            stored_energy |-> stored + energy_to_battery,
            battery_delta |-> energy_to_battery,
            grid_export |-> GridExport(net, energy_to_battery),
            grid_import |-> 0]
      ELSE [production |-> production, consumption |-> consumption,
            stored_energy |-> stored - energy_from_battery,
            battery_delta |-> 0 - energy_from_battery,
            grid_export |-> 0,
            grid_import |-> GridImport(blackout_active, demand, energy_from_battery)]

\* The dictionary appended to the timeline.
TimelinePoint(prediction, capacity, step) ==
  [timestamp |-> prediction.timestamp,
   production |-> Round2(step.production),
   consumption |-> Round2(step.consumption),
   batteryLevel |-> BatteryLevel(step.stored_energy, capacity),
   gridExport |-> Round2(step.grid_export),
   gridImport |-> Round2(step.grid_import),
   efficiency |-> Efficiency(prediction.confidence),
   batteryDelta |-> Round2(step.battery_delta)]

(***************************************************************************)
(* Specification of the timeline simulator: a call with any of the inputs  *)
(* above, one action per loop iteration, one for the return.               *)
(***************************************************************************)
TimelineInit ==
  /\ predictions \in PredictionLists
  /\ battery_capacity_kwh \in Capacities
  /\ initial_battery_level \in InitialLevels
  /\ blackouts \in BlackoutLists
  /\ windows = _flatten_blackout_windows(blackouts)
  /\ stored_energy = InitialStoredEnergy(initial_battery_level, battery_capacity_kwh)
  /\ timeline = << >>
  /\ tl_pc = "loop"
  /\ SingletonsIdle
  /\ DischargeIdle
  /\ LifecycleIdle
  /\ LaterIdle
  /\ LastIdle

\* Variant: the loop runs over every prediction, not the first 24.
TimelineStepEveryPrediction ==
  /\ tl_pc = "loop"
  /\ Len(timeline) < Len(predictions)
  /\ LET prediction == predictions[Len(timeline) + 1]
         step == HourStep(prediction, battery_capacity_kwh, stored_energy, windows)
     IN  /\ stored_energy' = step.stored_energy
         /\ timeline' = Append(timeline, TimelinePoint(prediction, battery_capacity_kwh, step))
  /\ UNCHANGED <<predictions, battery_capacity_kwh, initial_battery_level, blackouts,
                 windows, tl_pc>>
  /\ UNCHANGED outsideTimeline

\* for prediction in predictions[:24]: one iteration.
TimelineStep ==
  /\ tl_pc = "loop"
  /\ Len(timeline) < Len(Take(predictions, TIMELINE_HOURS))
  /\ LET prediction == Take(predictions, TIMELINE_HOURS)[Len(timeline) + 1]
         step == HourStep(prediction, battery_capacity_kwh, stored_energy, windows)
     IN  /\ stored_energy' = step.stored_energy
         /\ timeline' = Append(timeline, TimelinePoint(prediction, battery_capacity_kwh, step))
  /\ UNCHANGED <<predictions, battery_capacity_kwh, initial_battery_level, blackouts,
                 windows, tl_pc>>
  /\ UNCHANGED outsideTimeline

\* return timeline
TimelineReturn ==
  /\ tl_pc = "loop"
  /\ Len(timeline) = Len(Take(predictions, TIMELINE_HOURS))
  /\ tl_pc' = "done"
  /\ UNCHANGED <<predictions, battery_capacity_kwh, initial_battery_level, blackouts,
                 windows, stored_energy, timeline>>
  /\ UNCHANGED outsideTimeline

TimelineNext == TimelineStep \/ TimelineReturn

SpecTimeline == TimelineInit /\ [][TimelineNext]_vars

(***************************************************************************)
(* Properties of the timeline simulator.                                   *)
(***************************************************************************)
\* Two of the rounded terms can be non-zero in one point, each off by at most
\* half a hundredth.
RoundingTolerance == 2 * 50

\* The hour lies inside an interval [start, end) of some schedule, read off
\* the schedule list itself.
InBlackout(timestamp) ==
  \E s \in 1..Len(blackouts) : \E k \in 1..Len(blackouts[s].intervals) :
    LET iv == blackouts[s].intervals[k]
    IN  iv.start <= timestamp /\ timestamp < iv.end

\* batteryDelta + gridExport - gridImport - (production - consumption)
Imbalance(p) == p.batteryDelta + p.gridExport - p.gridImport - (p.production - p.consumption)

\* C1 as stated: in every point, blackout hours included, batteryDelta +
\* gridExport - gridImport equals production - consumption within the
\* rounding tolerance.
EnergyConservationEveryPoint ==
  \A i \in 1..Len(timeline) : Abs(Imbalance(timeline[i])) <= RoundingTolerance

\* C1 amended: the balance holds within the rounding tolerance in every point
\* that is not a deficit hour inside a blackout window; in a deficit hour
\* inside a blackout window gridImport and gridExport are 0 and
\* batteryDelta >= production - consumption, the difference being the deficit
\* nobody serves.
EnergyConservationExceptBlackoutDeficit ==
  \A i \in 1..Len(timeline) :
    LET p == timeline[i]
    IN  IF InBlackout(p.timestamp) /\ p.production < p.consumption
        THEN /\ p.gridImport = 0
             /\ p.gridExport = 0
             /\ p.batteryDelta >= p.production - p.consumption
        ELSE Abs(Imbalance(p)) <= RoundingTolerance

\* A timeline holding a blackout deficit hour whose deficit stays unserved and
\* a deficit hour outside every window that imports from the grid.
WitnessConservation ==
  /\ \E i \in 1..Len(timeline) :
       /\ InBlackout(timeline[i].timestamp)
       /\ timeline[i].production < timeline[i].consumption
       /\ Imbalance(timeline[i]) > RoundingTolerance
  /\ \E j \in 1..Len(timeline) :
       /\ ~InBlackout(timeline[j].timestamp)
       /\ timeline[j].gridImport > 0
       /\ timeline[j].batteryDelta < 0

\* C2: every point of the timeline has batteryLevel within [0, 100] percent.
BatteryLevelInRange ==
  \A i \in 1..Len(timeline) :
    timeline[i].batteryLevel >= 0 /\ timeline[i].batteryLevel <= 100 * 100

\* A point produced while the stored energy is above the capacity.
WitnessBatteryLevelClamped ==
  /\ Len(timeline) > 0
  /\ stored_energy > battery_capacity_kwh
  /\ timeline[Len(timeline)].batteryLevel = 100 * 100

\* C3: in an hour with net < 0 the battery gives min(storedEnergy, |net|);
\* gridImport is the rest of the deficit outside every blackout window and
\* exactly 0 inside one.
DeficitHourRule ==
  [][Len(timeline') = Len(timeline) + 1 =>
       LET prediction == predictions[Len(timeline) + 1]
           net == Max(0, prediction.expectedProduction) - Max(0, prediction.expectedConsumption)
           discharged == IF stored_energy <= 0 - net THEN stored_energy ELSE 0 - net
           point == timeline'[Len(timeline')]
       IN  net < 0 =>
             /\ stored_energy' = stored_energy - discharged
             /\ point.batteryDelta = Round2(0 - discharged)
             /\ point.gridExport = 0
             /\ point.gridImport =
                  IF InBlackout(prediction.timestamp) THEN 0
                  ELSE Round2((0 - net) - discharged)]_vars

\* A blackout hour whose deficit exceeds what the battery gave, with no import.
WitnessDeficitHour ==
  \E i \in 1..Len(timeline) :
    /\ InBlackout(timeline[i].timestamp)
    /\ timeline[i].batteryDelta < 0
    /\ timeline[i].consumption - timeline[i].production > 0 - timeline[i].batteryDelta
    /\ timeline[i].gridImport = 0

\* C4: in an hour with net >= 0 the battery takes min(net, capacity -
\* storedEnergy), gridExport is net minus the energy charged, gridImport is 0.
SurplusHourRule ==
  [][Len(timeline') = Len(timeline) + 1 =>
       LET prediction == predictions[Len(timeline) + 1]
           net == Max(0, prediction.expectedProduction) - Max(0, prediction.expectedConsumption)
           room == battery_capacity_kwh - stored_energy
           charged == IF net <= room THEN net ELSE room
           point == timeline'[Len(timeline')]
       IN  net >= 0 =>
             /\ stored_energy' = stored_energy + charged
             /\ point.batteryDelta = Round2(charged)
             /\ point.gridExport = Round2(net - charged)
             /\ point.gridImport = 0]_vars

\* A surplus hour that fills the battery and exports the remainder.
WitnessSurplusHour ==
  \E i \in 1..Len(timeline) :
    /\ timeline[i].production > timeline[i].consumption
    /\ timeline[i].batteryDelta > 0
    /\ timeline[i].gridExport > 0
    /\ timeline[i].gridImport = 0
    /\ timeline[i].batteryLevel = 100 * 100

(***************************************************************************)
(* Point-prediction collaborators.                                         *)
(***************************************************************************)
\* What a loaded regressor answers for an hour of day (kW): the regressors
\* are opaque, these are the ones explored.
ProductionModels == {"zero", "solar", "surplus"}

ConsumptionModels == {"flat10", "evening", "idle"}

ModelPredict(model, hour) ==
  CASE model = "zero" -> 0
    [] model = "solar" -> IF 8 <= hour /\ hour <= 17 THEN 150000 ELSE 0
    [] model = "surplus" -> 120000
    [] model = "flat10" -> 100000
    [] model = "evening" -> IF 18 <= hour /\ hour <= 22 THEN 250000 ELSE 50000
    [] model = "idle" -> 0

\* The states a singleton can be left in by load_model: untouched, model read
\* but a later step of load_model failed, or loaded.
ServiceStates(models) ==
  {UnloadedService}
    \cup {[model |-> m, model_loaded |-> FALSE] : m \in models}
    \cup {[model |-> m, model_loaded |-> TRUE] : m \in models}

Returned(value) == [ok |-> TRUE, value |-> value]

Raised(error) == [ok |-> FALSE, error |-> error]

\* list(range(a, b))
Range(a, b) == [k \in 1..(b - a) |-> a + k - 1]

\* sorted(set(hours)) restricted to 0 <= hour <= 23: the hours of day, in
\* ascending order, that occur in `hours`.
TargetHours(hours) ==
  LET S == {hours[k] : k \in 1..Len(hours)}
  IN  SelectSeq([k \in 1..24 |-> k - 1], LAMBDA h : h \in S)

\* MLModelService.predict / MLConsumptionService.predict for one row:
\* np.maximum(model.predict(features), 0).
ServicePredict(service, hour) == Max(ModelPredict(service.model, hour), 0)

\* Variant: an unloaded production model is replaced by zeros instead of failing.
predict_solar_production_lenient(service, day, hours, upstream_ok) ==
  IF ~service.model_loaded \/ service.model = "None" \/ ~upstream_ok
  THEN Returned([k \in 1..Len(hours) |-> [datetime |-> <<day, hours[k]>>, production_kw |-> 0]])
  ELSE Returned([k \in 1..Len(hours) |->
                  [datetime |-> <<day, hours[k]>>,
                   production_kw |-> Round2(ServicePredict(service, hours[k]))]])

\* predict_solar_production for the datetimes (day, hour) of `hours`;
\* upstream_ok: the Open-Meteo fetch, the feature table and the regressor
\* all worked.
predict_solar_production(service, day, hours, upstream_ok) ==
  IF ~service.model_loaded THEN Raised("RuntimeError")
  ELSE IF hours = << >> THEN Returned(<< >>)
  ELSE IF ~upstream_ok \/ service.model = "None" THEN Raised("RuntimeError")
  ELSE Returned([k \in 1..Len(hours) |->
                  [datetime |-> <<day, hours[k]>>,
                   production_kw |-> Round2(ServicePredict(service, hours[k]))]])

\* predict_consumption; upstream_ok: the regressor worked.
predict_consumption(service, day, hours, upstream_ok) ==
  IF ~service.model_loaded THEN Raised("RuntimeError")
  ELSE IF hours = << >> THEN Returned(<< >>)
  ELSE IF ~upstream_ok \/ service.model = "None" THEN Raised("RuntimeError")
  ELSE Returned([k \in 1..Len(hours) |->
                  [datetime |-> <<day, hours[k]>>,
                   consumption_kw |-> Round2(ServicePredict(service, hours[k]))]])

\* predict_for_specific_hours (the date has been parsed by the caller's path)
predict_for_specific_hours(service, day, hours, upstream_ok) ==
  IF TargetHours(hours) = << >> THEN Returned(<< >>)
  ELSE predict_solar_production(service, day, TargetHours(hours), upstream_ok)

\* predict_consumption_for_specific_hours
predict_consumption_for_specific_hours(service, day, hours, upstream_ok) ==
  IF TargetHours(hours) = << >> THEN Returned(<< >>)
  ELSE predict_consumption(service, day, TargetHours(hours), upstream_ok)

(***************************************************************************)
(* calculate_battery_discharge_time.                                       *)
(***************************************************************************)
HOURS_PER_DAY == 24

MINUTES_PER_HOUR == 60

\* Arguments explored: every hour of day and the two nearest invalid ones.
StartHours == (0 - 1)..HOURS_PER_DAY

Dates == {"None", "valid", "invalid"}

\* config["battery"]["capacityKwh"]: 0, 25 kWh and the default 100 kWh.
DcCapacities == {0, 250000, 1000000}

\* Variant: hour 24 passes the validation.
ValidStartHourOffByOne(h) == 0 <= h /\ h <= HOURS_PER_DAY

\* 0 <= start_hour <= 23
ValidStartHour(h) == 0 <= h /\ h <= 23

\* Variant: the simulation starts from an empty battery.
StartLevelEmpty(capacity) == 0

\* battery_level_kwh = battery_capacity_kwh  # Start at 100%
StartLevel(capacity) == capacity

\* Clamp battery level between 0 and capacity
ClampLevel(level, capacity) ==
  IF level > capacity THEN capacity
  ELSE IF level < 0 THEN 0
  ELSE level

\* Variant: the elapsed time counts the hours before the current one only.
ElapsedMinutesFromZero(i) == i * MINUTES_PER_HOUR

\* elapsed_minutes = (i + 1) * 60
ElapsedMinutes(i) == (i + 1) * MINUTES_PER_HOUR

\* Variant: the simulation covers the rest of the given date only.
NextDayHoursNone == << >>

\* hours_next_day = list(range(0, 24))
NextDayHours == Range(0, HOURS_PER_DAY)

\* zip(all_production, all_consumption) after the truncation to min_len
SimulatedHours == Min(Len(all_production), Len(all_consumption))

Call(fn, day, hours, ok) == [fn |-> fn, day |-> day, hours |-> hours, ok |-> ok]

DischargeRaise(error) ==
  /\ dc_pc' = "raised"
  /\ dc_result' = [status |-> "error", error |-> error]

DischargeInit ==
  /\ start_hour \in StartHours
  /\ date \in Dates
  /\ ml_model_service \in ServiceStates(ProductionModels)
  /\ ml_consumption_service \in ServiceStates(ConsumptionModels)
  /\ dc_capacity_kwh = 0
  /\ production_today = << >>
  /\ production_tomorrow = << >>
  /\ consumption_today = << >>
  /\ consumption_tomorrow = << >>
  /\ all_production = << >>
  /\ all_consumption = << >>
  /\ battery_level_kwh = 0
  /\ minutes_to_empty = {}
  /\ hour_index = 0
  /\ dc_pc = "validate"
  /\ dc_result = [status |-> "none"]
  /\ calls = << >>
  /\ TimelineIdle
  /\ LifecycleIdle
  /\ LaterIdle
  /\ LastIdle

\* if not (0 <= start_hour <= 23): raise ValueError
DischargeValidate ==
  /\ dc_pc = "validate"
  /\ IF ValidStartHour(start_hour)
     THEN dc_pc' = "config" /\ UNCHANGED dc_result
     ELSE DischargeRaise("ValueError")
  /\ UNCHANGED <<start_hour, date, dc_capacity_kwh, production_today, production_tomorrow,
                 consumption_today, consumption_tomorrow, all_production, all_consumption,
                 battery_level_kwh, minutes_to_empty, hour_index, calls>>
  /\ UNCHANGED outsideDischarge

\* config = get_system_config(); the capacity check
DischargeGetConfig ==
  /\ dc_pc = "config"
  /\ \E config_ok \in BOOLEAN : \E capacity \in DcCapacities :
       /\ calls' = Append(calls, Call("get_system_config", 0, << >>, config_ok))
       /\ IF ~config_ok
          THEN DischargeRaise("RuntimeError") /\ UNCHANGED dc_capacity_kwh
          ELSE /\ dc_capacity_kwh' = capacity
               /\ IF capacity <= 0
                  THEN DischargeRaise("ValueError")
                  ELSE dc_pc' = "date" /\ UNCHANGED dc_result
  /\ UNCHANGED <<start_hour, date, production_today, production_tomorrow,
                 consumption_today, consumption_tomorrow, all_production, all_consumption,
                 battery_level_kwh, minutes_to_empty, hour_index>>
  /\ UNCHANGED outsideDischarge

\* target_date: today, or datetime.fromisoformat(date).date()
DischargeParseDate ==
  /\ dc_pc = "date"
  /\ IF date = "invalid"
     THEN DischargeRaise("ValueError")
     ELSE dc_pc' = "production_today" /\ UNCHANGED dc_result
  /\ UNCHANGED <<start_hour, date, dc_capacity_kwh, production_today, production_tomorrow,
                 consumption_today, consumption_tomorrow, all_production, all_consumption,
                 battery_level_kwh, minutes_to_empty, hour_index, calls>>
  /\ UNCHANGED outsideDischarge

\* production_today = await predict_for_specific_hours(date_str, hours_to_simulate, ...)
DischargeProductionToday ==
  /\ dc_pc = "production_today"
  /\ \E upstream_ok \in BOOLEAN :
       LET hours == Range(start_hour, HOURS_PER_DAY)
           r == predict_for_specific_hours(ml_model_service, 0, hours, upstream_ok)
       IN  /\ calls' = Append(calls, Call("predict_for_specific_hours", 0, hours, upstream_ok))
           /\ IF r.ok
              THEN /\ production_today' = r.value
                   /\ dc_pc' = "production_tomorrow"
                   /\ UNCHANGED dc_result
              ELSE DischargeRaise("RuntimeError") /\ UNCHANGED production_today
  /\ UNCHANGED <<start_hour, date, dc_capacity_kwh, production_tomorrow,
                 consumption_today, consumption_tomorrow, all_production, all_consumption,
                 battery_level_kwh, minutes_to_empty, hour_index>>
  /\ UNCHANGED outsideDischarge

\* production_tomorrow = await predict_for_specific_hours(next_date_str, hours_next_day, ...)
DischargeProductionTomorrow ==
  /\ dc_pc = "production_tomorrow"
  /\ \E upstream_ok \in BOOLEAN :
       LET r == predict_for_specific_hours(ml_model_service, 1, NextDayHours, upstream_ok)
       IN  /\ calls' = Append(calls, Call("predict_for_specific_hours", 1, NextDayHours, upstream_ok))
           /\ IF r.ok
              THEN /\ production_tomorrow' = r.value
                   /\ dc_pc' = "consumption_today"
                   /\ UNCHANGED dc_result
              ELSE DischargeRaise("RuntimeError") /\ UNCHANGED production_tomorrow
  /\ UNCHANGED <<start_hour, date, dc_capacity_kwh, production_today,
                 consumption_today, consumption_tomorrow, all_production, all_consumption,
                 battery_level_kwh, minutes_to_empty, hour_index>>
  /\ UNCHANGED outsideDischarge

\* consumption_today = await predict_consumption_for_specific_hours(date_str, hours_to_simulate)
DischargeConsumptionToday ==
  /\ dc_pc = "consumption_today"
  /\ \E upstream_ok \in BOOLEAN :
       LET hours == Range(start_hour, HOURS_PER_DAY)
           r == predict_consumption_for_specific_hours(ml_consumption_service, 0, hours, upstream_ok)
       IN  /\ calls' = Append(calls, Call("predict_consumption_for_specific_hours", 0, hours, upstream_ok))
           /\ IF r.ok
              THEN /\ consumption_today' = r.value
                   /\ dc_pc' = "consumption_tomorrow"
                   /\ UNCHANGED dc_result
              ELSE DischargeRaise("RuntimeError") /\ UNCHANGED consumption_today
  /\ UNCHANGED <<start_hour, date, dc_capacity_kwh, production_today, production_tomorrow,
                 consumption_tomorrow, all_production, all_consumption,
                 battery_level_kwh, minutes_to_empty, hour_index>>
  /\ UNCHANGED outsideDischarge

\* consumption_tomorrow = await predict_consumption_for_specific_hours(...); then the
\* lists are joined, cut to the shorter length, and the battery starts full.
DischargeConsumptionTomorrow ==
  /\ dc_pc = "consumption_tomorrow"
  /\ \E upstream_ok \in BOOLEAN :
       LET r == predict_consumption_for_specific_hours(ml_consumption_service, 1, NextDayHours, upstream_ok)
       IN  /\ calls' = Append(calls, Call("predict_consumption_for_specific_hours", 1, NextDayHours, upstream_ok))
           /\ IF r.ok
              THEN LET production == production_today \o production_tomorrow
                       consumption == consumption_today \o r.value
                       min_len == Min(Len(production), Len(consumption))
                   IN  /\ consumption_tomorrow' = r.value
                       /\ all_production' = Take(production, min_len)
                       /\ all_consumption' = Take(consumption, min_len)
                       /\ battery_level_kwh' = StartLevel(dc_capacity_kwh)
                       /\ dc_pc' = "simulate"
                       /\ UNCHANGED dc_result
              ELSE /\ DischargeRaise("RuntimeError")
                   /\ UNCHANGED <<consumption_tomorrow, all_production, all_consumption,
                                  battery_level_kwh>>
  /\ UNCHANGED <<start_hour, date, dc_capacity_kwh, production_today, production_tomorrow,
                 consumption_today, minutes_to_empty, hour_index>>
  /\ UNCHANGED outsideDischarge

\* One iteration of the simulation loop; hour_index is the loop's i.
DischargeSimulateHour ==
  /\ dc_pc = "simulate"
  /\ minutes_to_empty = {}
  /\ hour_index < SimulatedHours
  /\ LET i == hour_index
         production_kw == all_production[i + 1].production_kw
         consumption_kw == all_consumption[i + 1].consumption_kw
         balance_kwh == production_kw - consumption_kw
         level == ClampLevel(battery_level_kwh + balance_kwh, dc_capacity_kwh)
     IN  /\ battery_level_kwh' = level
         /\ hour_index' = i + 1
         /\ minutes_to_empty' = IF level <= 0 THEN {ElapsedMinutes(i)} ELSE {}
  /\ UNCHANGED <<start_hour, date, dc_capacity_kwh, production_today, production_tomorrow,
                 consumption_today, consumption_tomorrow, all_production, all_consumption,
                 dc_pc, dc_result, calls>>
  /\ UNCHANGED outsideDischarge

\* The loop is left (break, or the lists are exhausted) and the estimate returned.
DischargeReturn ==
  /\ dc_pc = "simulate"
  /\ minutes_to_empty # {} \/ hour_index = SimulatedHours
  /\ dc_pc' = "returned"
  /\ dc_result' = [status |-> "ok",
                   minutesToEmpty |-> minutes_to_empty,
                   startHour |-> start_hour,
                   batteryCapacityKwh |-> Round2(dc_capacity_kwh)]
  /\ UNCHANGED <<start_hour, date, dc_capacity_kwh, production_today, production_tomorrow,
                 consumption_today, consumption_tomorrow, all_production, all_consumption,
                 battery_level_kwh, minutes_to_empty, hour_index, calls>>
  /\ UNCHANGED outsideDischarge

DischargeNext ==
  \/ DischargeValidate
  \/ DischargeGetConfig
  \/ DischargeParseDate
  \/ DischargeProductionToday
  \/ DischargeProductionTomorrow
  \/ DischargeConsumptionToday
  \/ DischargeConsumptionTomorrow
  \/ DischargeSimulateHour
  \/ DischargeReturn

SpecDischarge == DischargeInit /\ [][DischargeNext]_vars

\* The estimator is straight-line code whose awaits return or raise: every
\* enabled step is eventually taken.
SpecDischargeFair == SpecDischarge /\ WF_vars(DischargeNext)

(***************************************************************************)
(* Properties of the discharge-time estimator.                             *)
(***************************************************************************)
\* The datetimes the estimator has to cover: start_hour..23 of the given
\* date (day 0), then 0..23 of the next date (day 1).
HorizonDatetimes ==
  [k \in 1..(48 - start_hour) |->
     IF k <= 24 - start_hour THEN <<0, start_hour + k - 1>>
     ELSE <<1, k - (24 - start_hour) - 1>>]

\* C5: the simulation starts from the full capacity; an iteration i sets the
\* level to clamp(level + production - consumption, 0, capacity) and, the
\* first time that is <= 0, minutesToEmpty = (i + 1) * 60, after which no
\* further hour is simulated; with 100 kWh, constant 10 kW consumption, zero
\* production and startHour 0 the estimate is 600 minutes.
DischargeRuleAndExample ==
  /\ [](dc_pc = "returned"
          /\ start_hour = 0
          /\ dc_capacity_kwh = 1000000
          /\ (\A k \in 1..Len(all_production) : all_production[k].production_kw = 0)
          /\ (\A k \in 1..Len(all_consumption) : all_consumption[k].consumption_kw = 100000)
        => dc_result.minutesToEmpty = {600})
  /\ [][/\ (dc_pc # "simulate" /\ dc_pc' = "simulate")
             => battery_level_kwh' = dc_capacity_kwh /\ minutes_to_empty' = {}
        /\ (dc_pc = "simulate" /\ minutes_to_empty # {})
             => hour_index' = hour_index /\ battery_level_kwh' = battery_level_kwh
        /\ hour_index' = hour_index + 1
             => LET sum == battery_level_kwh
                             + all_production[hour_index + 1].production_kw
                             - all_consumption[hour_index + 1].consumption_kw
                    level == IF sum > dc_capacity_kwh THEN dc_capacity_kwh
                             ELSE IF sum < 0 THEN 0 ELSE sum
                IN  /\ minutes_to_empty = {}
                    /\ battery_level_kwh' = level
                    /\ minutes_to_empty' =
                         IF level <= 0 THEN {(hour_index + 1) * 60} ELSE {}]_vars

\* The example of C5 has returned 600 minutes.
WitnessDischargeExample ==
  /\ dc_pc = "returned"
  /\ start_hour = 0
  /\ dc_capacity_kwh = 1000000
  /\ ml_model_service.model = "zero"
  /\ ml_consumption_service.model = "flat10"
  /\ hour_index = 10
  /\ dc_result.minutesToEmpty = {600}

\* C6: when the predicted production is >= the predicted consumption in
\* every simulated hour, the estimate returned has minutesToEmpty = null.
SurplusNeverEmpties ==
  (dc_pc = "returned"
     /\ \A k \in 1..SimulatedHours :
          all_production[k].production_kw >= all_consumption[k].consumption_kw)
  => dc_result.minutesToEmpty = {}

\* An estimate for hours in which production equals consumption throughout.
WitnessSurplusNeverEmpties ==
  /\ dc_pc = "returned"
  /\ SimulatedHours > 0
  /\ \A k \in 1..SimulatedHours :
       all_production[k].production_kw = all_consumption[k].consumption_kw
  /\ dc_result.minutesToEmpty = {}

\* C7, the safety part: the hours simulated are exactly the horizon; the
\* estimate is null or a multiple of 60 in [60, 60 * (48 - startHour)]; it is
\* null exactly when no simulated level was <= 0 and the whole horizon was run.
DischargeHorizon ==
  /\ dc_pc \in {"simulate", "returned"} =>
       /\ [k \in 1..Len(all_production) |-> all_production[k].datetime] = HorizonDatetimes
       /\ [k \in 1..Len(all_consumption) |-> all_consumption[k].datetime] = HorizonDatetimes
       /\ hour_index <= 48 - start_hour
       /\ minutes_to_empty = {} <=> battery_level_kwh > 0
       /\ \A m \in minutes_to_empty :
            /\ m = 60 * hour_index
            /\ m % 60 = 0
            /\ 60 <= m /\ m <= 60 * (48 - start_hour)
  /\ dc_pc = "returned" =>
       /\ dc_result.minutesToEmpty = minutes_to_empty
       /\ minutes_to_empty = {} => hour_index = 48 - start_hour

DischargeFinished == dc_pc \in {"returned", "raised"}

\* C7: the horizon property above, and every call ends.
DischargeHorizonAndTermination == []DischargeHorizon /\ <>DischargeFinished

\* An estimate reached on the next date: later than the rest of the given date.
WitnessDischargeHorizon ==
  /\ dc_pc = "returned"
  /\ start_hour > 0
  /\ \E m \in dc_result.minutesToEmpty : m > 60 * (24 - start_hour)

\* C8: for a start_hour outside 0..23 the call raises the input error at
\* once: no configuration read, no collaborator call, no estimate.
InvalidStartHourRejected ==
  ~(0 <= start_hour /\ start_hour <= 23) =>
     /\ calls = << >>
     /\ dc_pc \in {"validate", "raised"}
     /\ dc_pc = "raised" => dc_result = [status |-> "error", error |-> "ValueError"]

\* A call with start_hour = 24 has raised.
WitnessInvalidStartHour ==
  /\ start_hour = 24
  /\ dc_pc = "raised"
  /\ dc_result.error = "ValueError"
  /\ calls = << >>

PredictionCalls ==
  {"predict_for_specific_hours", "predict_consumption_for_specific_hours"}

\* A point-prediction call was made whose upstream failed or whose model is
\* not loaded.
CollaboratorFailed ==
  \E k \in 1..Len(calls) :
    \/ /\ calls[k].fn = "predict_for_specific_hours"
       /\ ~calls[k].ok \/ ~ml_model_service.model_loaded
    \/ /\ calls[k].fn = "predict_consumption_for_specific_hours"
       /\ ~calls[k].ok \/ ~ml_consumption_service.model_loaded

\* C9: once a point-prediction collaborator has failed or found its model not
\* loaded the call is in error, and no estimate is ever returned with a model
\* not loaded.
CollaboratorFailureIsAnError ==
  /\ CollaboratorFailed =>
       dc_pc = "raised" /\ dc_result = [status |-> "error", error |-> "RuntimeError"]
  /\ dc_result.status = "ok" =>
       /\ ml_model_service.model_loaded
       /\ ml_consumption_service.model_loaded
       /\ \A k \in 1..Len(calls) : calls[k].ok

\* The production calls succeeded and the consumption model was not loaded.
WitnessCollaboratorFailure ==
  /\ dc_pc = "raised"
  /\ Len(calls) = 4
  /\ ml_model_service.model_loaded
  /\ ~ml_consumption_service.model_loaded
  /\ calls[4].fn = "predict_consumption_for_specific_hours"
  /\ dc_result.error = "RuntimeError"

(***************************************************************************)
(* Process lifecycle: main.py lifespan and the requests that reach the     *)
(* statistical model singletons.                                           *)
(***************************************************************************)
MaxRequests == 3

\* MLModelService.load_model with the files found on disk: the model file
\* may be missing or unreadable (nothing assigned), a later step (scaler,
\* metadata) may fail after self.model was assigned, or all of it works.
MLModelService_load_model(service, file_exists, model, rest_ok) ==
  IF ~file_exists THEN [service |-> service, raised |-> "FileNotFoundError"]
  ELSE IF model = "unreadable" THEN [service |-> service, raised |-> "RuntimeError"]
  ELSE IF ~rest_ok
  THEN [service |-> [model |-> model, model_loaded |-> service.model_loaded],
        raised |-> "RuntimeError"]
  ELSE [service |-> [model |-> model, model_loaded |-> TRUE], raised |-> "None"]

\* MLConsumptionService.load_model: the same shape (model file, then config).
MLConsumptionService_load_model(service, file_exists, model, rest_ok) ==
  IF ~file_exists THEN [service |-> service, raised |-> "FileNotFoundError"]
  ELSE IF model = "unreadable" THEN [service |-> service, raised |-> "RuntimeError"]
  ELSE IF ~rest_ok
  THEN [service |-> [model |-> model, model_loaded |-> service.model_loaded],
        raised |-> "RuntimeError"]
  ELSE [service |-> [model |-> model, model_loaded |-> TRUE], raised |-> "None"]

\* get_model_info()["loaded"]
get_model_info(service) == [loaded |-> service.model_loaded]

\* The datetimes a prediction query asks for: none, or some hours of a day.
QueryHours == {<< >>, <<12>>, <<0, 23>>}

LifecycleInit ==
  /\ lc_pc = "boot"
  /\ db_connected = FALSE
  /\ panel_classifier_model = "None"
  /\ load_calls = NoLoadCalls
  /\ requests_served = 0
  /\ last_outcome = [op |-> "none", ok |-> FALSE]
  /\ SingletonsIdle
  /\ TimelineIdle
  /\ DischargeIdle
  /\ LaterIdle
  /\ LastIdle

\* get_database()  # Initialize database connection
LifespanGetDatabase ==
  /\ lc_pc = "boot"
  /\ \E ok \in BOOLEAN :
       IF ok THEN db_connected' = TRUE /\ lc_pc' = "load_classifier"
       ELSE db_connected' = FALSE /\ lc_pc' = "failed"
  /\ UNCHANGED <<panel_classifier_model, load_calls, requests_served, last_outcome>>
  /\ UNCHANGED mlVars
  /\ UNCHANGED outsideLifecycle

\* try: panel_classifier_service.load_model() except Exception: warning
LifespanLoadClassifier ==
  /\ lc_pc = "load_classifier"
  /\ \E loaded \in BOOLEAN :
       panel_classifier_model' = IF loaded THEN "keras" ELSE panel_classifier_model
  /\ load_calls' = [load_calls EXCEPT !.classifier = @ + 1]
  /\ lc_pc' = "load_production"
  /\ UNCHANGED <<db_connected, requests_served, last_outcome>>
  /\ UNCHANGED mlVars
  /\ UNCHANGED outsideLifecycle

\* try: ml_model_service.load_model(model_name="random_forest") except Exception: warning
LifespanLoadProductionModel ==
  /\ lc_pc = "load_production"
  /\ \E file_exists \in BOOLEAN : \E model \in ProductionModels \cup {"unreadable"} :
     \E rest_ok \in BOOLEAN :
       ml_model_service' =
         MLModelService_load_model(ml_model_service, file_exists, model, rest_ok).service
  /\ load_calls' = [load_calls EXCEPT !.production = @ + 1]
  /\ lc_pc' = "serving"
  /\ UNCHANGED <<db_connected, panel_classifier_model, requests_served, last_outcome>>
  /\ UNCHANGED ml_consumption_service
  /\ UNCHANGED outsideLifecycle

\* A request is served: nothing but the request count and its outcome changes.
Served(op, ok) ==
  /\ lc_pc = "serving"
  /\ requests_served < MaxRequests
  /\ requests_served' = requests_served + 1
  /\ last_outcome' = [op |-> op, ok |-> ok]
  /\ UNCHANGED <<lc_pc, db_connected, panel_classifier_model, load_calls>>
  /\ UNCHANGED mlVars
  /\ UNCHANGED outsideLifecycle

\* mlPredict and its variants: predict_solar_production
RequestMlPredict ==
  \E hours \in QueryHours : \E upstream_ok \in BOOLEAN :
    Served("predict_solar_production",
           predict_solar_production(ml_model_service, 0, hours, upstream_ok).ok)

\* mlPredictConsumption and its variants: predict_consumption
RequestMlPredictConsumption ==
  \E hours \in QueryHours : \E upstream_ok \in BOOLEAN :
    Served("predict_consumption",
           predict_consumption(ml_consumption_service, 0, hours, upstream_ok).ok)

\* mlModelInfo
RequestMlModelInfo ==
  Served("ml_model_info", get_model_info(ml_model_service).loaded)

\* mlConsumptionModelInfo
RequestMlConsumptionModelInfo ==
  Served("ml_consumption_model_info", get_model_info(ml_consumption_service).loaded)

\* batteryDischargeEstimate: calculate_battery_discharge_time, which returns an
\* estimate only if its production and consumption calls both return.
RequestBatteryDischargeEstimate ==
  \E h \in 0..23 : \E upstream_ok \in BOOLEAN :
    Served("calculate_battery_discharge_time",
           /\ predict_for_specific_hours(ml_model_service, 0,
                                         Range(h, HOURS_PER_DAY), upstream_ok).ok
           /\ predict_consumption_for_specific_hours(ml_consumption_service, 0,
                                         Range(h, HOURS_PER_DAY), upstream_ok).ok)

\* POST /api/classify-panel
RequestClassifyPanel ==
  Served("classify_panel", panel_classifier_model # "None")

\* close_database()
LifespanShutdown ==
  /\ lc_pc = "serving"
  /\ lc_pc' = "stopped"
  /\ db_connected' = FALSE
  /\ UNCHANGED <<panel_classifier_model, load_calls, requests_served, last_outcome>>
  /\ UNCHANGED mlVars
  /\ UNCHANGED outsideLifecycle

LifecycleNext ==
  \/ LifespanGetDatabase
  \/ LifespanLoadClassifier
  \/ LifespanLoadProductionModel
  \/ RequestMlPredict
  \/ RequestMlPredictConsumption
  \/ RequestMlModelInfo
  \/ RequestMlConsumptionModelInfo
  \/ RequestBatteryDischargeEstimate
  \/ RequestClassifyPanel
  \/ LifespanShutdown

SpecLifecycle == LifecycleInit /\ [][LifecycleNext]_vars

(***************************************************************************)
(* Properties of the lifecycle.                                            *)
(***************************************************************************)
\* C10: once startup is over, the production singleton and the consumption
\* singleton have each been loaded once (at process start), and serving
\* requests never loads one again.
SingletonsLoadedOnceAtStartup ==
  lc_pc \in {"serving", "stopped"} =>
    /\ load_calls.production = 1
    /\ load_calls.consumption = 1

(***************************************************************************)
(* Weather service: _fetch_openweather_snapshot, get_live_weather_data and *)
(* generate_weather_data, called concurrently.  A call runs without        *)
(* interruption between two awaits: up to the provider request             *)
(* (client.get), from the response to the closing of the client, and from  *)
(* there to its return.                                                    *)
(***************************************************************************)
MaxClock == 120

ClockStep == 30

CACHE_TTL_SECONDS == 60

\* What the provider request can end in: a transport or timeout error, an
\* HTTP error status, a body that is not JSON, a One Call payload, or JSON
\* without the fields get_live_weather_data reads.
Responses == {"network_error", "http_error", "bad_json", "onecall", "malformed"}

Payloads == {"onecall", "malformed"}

WxEntries == {"generate_weather_data", "_fetch_openweather_snapshot"}

\* age < CACHE_TTL_SECONDS, mutated to an inclusive bound
CacheFreshInclusive(snapshot, t) == t - snapshot.fetchedAt <= CACHE_TTL_SECONDS

\* age = datetime.utcnow().timestamp() - _cached_snapshot["fetchedAt"]; age < CACHE_TTL_SECONDS
CacheFresh(snapshot, t) == t - snapshot.fetchedAt < CACHE_TTL_SECONDS

\* get_live_weather_data on a snapshot
LiveWeather(snapshot) ==
  [kind |-> "live", provider |-> "OpenWeather One Call 2.5",
   description |-> "description of the payload", fetchedAt |-> snapshot.fetchedAt]

\* _generate_fallback_weather_data
FallbackWeather ==
  [kind |-> "fallback", provider |-> "Simulacion interna (fallback)",
   description |-> "Datos simulados por indisponibilidad de OpenWeather"]

\* generate_weather_data without its except clause
generate_weather_data_propagating(fetch, snapshot) ==
  IF fetch = "raised" THEN [kind |-> "raised", error |-> "Exception"]
  ELSE IF snapshot.raw = "malformed" THEN [kind |-> "raised", error |-> "KeyError"]
  ELSE LiveWeather(snapshot)

\* generate_weather_data once _fetch_openweather_snapshot has returned or
\* raised: get_live_weather_data raises on a payload without its fields.
generate_weather_data(fetch, snapshot) ==
  IF fetch = "raised" THEN FallbackWeather
  ELSE IF snapshot.raw = "malformed" THEN FallbackWeather
  ELSE LiveWeather(snapshot)

\* What the entry point hands to its caller.
WxResult(entry, fetch, snapshot) ==
  IF entry = "generate_weather_data" THEN generate_weather_data(fetch, snapshot)
  ELSE IF fetch = "raised" THEN [kind |-> "raised", error |-> "Exception"]
  ELSE [kind |-> "snapshot", raw |-> snapshot.raw, fetchedAt |-> snapshot.fetchedAt]

WeatherInit ==
  /\ OPENWEATHER_API_KEY \in {"None", "key"}
  /\ _cached_snapshot = NoSnapshot
  /\ utcnow = 0
  /\ wx_calls = [c \in WxCallers |-> NoCall]
  /\ TimelineIdle
  /\ DischargeIdle
  /\ LifecycleIdle
  /\ SingletonsIdle
  /\ ForecastIdle
  /\ EnergyFlowIdle
  /\ AlertsIdle
  /\ PathsIdle
  /\ LastIdle

\* Time passes.
WxTick ==
  /\ utcnow + ClockStep <= MaxClock
  /\ utcnow' = utcnow + ClockStep
  /\ UNCHANGED <<OPENWEATHER_API_KEY, _cached_snapshot, wx_calls>>
  /\ UNCHANGED outsideWeather

\* A call starts and runs to its first await (lines 227-245): the cache
\* check, the API key check, the provider request.
WxCheck(c) ==
  /\ wx_calls[c].pc \in {"idle", "done"}
  /\ \E entry \in WxEntries :
     \E force \in (IF entry = "generate_weather_data" THEN {FALSE} ELSE BOOLEAN) :
       LET call == [NoCall EXCEPT !.entry = entry, !.force = force,
                                  !.checked_at = utcnow]
       IN  IF ~force /\ _cached_snapshot # NoSnapshot
              /\ CacheFresh(_cached_snapshot, utcnow)
           THEN wx_calls' = [wx_calls EXCEPT ![c] =
                  [call EXCEPT !.pc = "done", !.fetch = "cached",
                               !.snapshot = _cached_snapshot,
                               !.result = WxResult(entry, "cached", _cached_snapshot)]]
           ELSE IF OPENWEATHER_API_KEY = "None"
           THEN wx_calls' = [wx_calls EXCEPT ![c] =
                  [call EXCEPT !.pc = "done", !.fetch = "raised",
                               !.result = WxResult(entry, "raised", NoSnapshot)]]
           ELSE wx_calls' = [wx_calls EXCEPT ![c] =
                  [call EXCEPT !.pc = "get", !.upstream = TRUE, !.requests = 1]]
  /\ UNCHANGED <<OPENWEATHER_API_KEY, _cached_snapshot, utcnow>>
  /\ UNCHANGED outsideWeather

\* Variant: a transport error is answered by one more request.
WxGetRetrying(c) ==
  /\ wx_calls[c].pc = "get"
  /\ \E response \in Responses :
       IF response = "network_error"
       THEN IF wx_calls[c].requests < 2
            THEN wx_calls' = [wx_calls EXCEPT ![c] =
                   [@ EXCEPT !.response = response,
                             !.requests = wx_calls[c].requests + 1]]
            ELSE wx_calls' = [wx_calls EXCEPT ![c] =
                   [@ EXCEPT !.pc = "done", !.response = response, !.fetch = "raised",
                             !.result = WxResult(wx_calls[c].entry, "raised", NoSnapshot)]]
       ELSE wx_calls' = [wx_calls EXCEPT ![c] =
              [@ EXCEPT !.pc = "aclose", !.response = response]]
  /\ UNCHANGED <<OPENWEATHER_API_KEY, _cached_snapshot, utcnow>>
  /\ UNCHANGED outsideWeather

\* await client.get(...) ends (line 245): with an exception, or with a response.
WxGet(c) ==
  /\ wx_calls[c].pc = "get"
  /\ \E response \in Responses :
       IF response = "network_error"
       THEN wx_calls' = [wx_calls EXCEPT ![c] =
              [@ EXCEPT !.pc = "done", !.response = response, !.fetch = "raised",
                        !.result = WxResult(wx_calls[c].entry, "raised", NoSnapshot)]]
       ELSE wx_calls' = [wx_calls EXCEPT ![c] =
              [@ EXCEPT !.pc = "aclose", !.response = response]]
  /\ UNCHANGED <<OPENWEATHER_API_KEY, _cached_snapshot, utcnow>>
  /\ UNCHANGED outsideWeather

\* The client is closed; raise_for_status, response.json(), the cache write
\* and the return (lines 246-250).
WxStore(c) ==
  /\ wx_calls[c].pc = "aclose"
  /\ IF wx_calls[c].response \in Payloads
     THEN LET fetched == [raw |-> wx_calls[c].response, fetchedAt |-> utcnow]
          IN  /\ _cached_snapshot' = fetched
              /\ wx_calls' = [wx_calls EXCEPT ![c] =
                   [@ EXCEPT !.pc = "done", !.fetch = "fetched", !.snapshot = fetched,
                             !.result = WxResult(wx_calls[c].entry, "fetched", fetched)]]
     ELSE /\ _cached_snapshot' = _cached_snapshot
          /\ wx_calls' = [wx_calls EXCEPT ![c] =
               [@ EXCEPT !.pc = "done", !.fetch = "raised",
                         !.result = WxResult(wx_calls[c].entry, "raised", NoSnapshot)]]
  /\ UNCHANGED <<OPENWEATHER_API_KEY, utcnow>>
  /\ UNCHANGED outsideWeather

WeatherNext ==
  \/ WxTick
  \/ \E c \in WxCallers : WxCheck(c)
  \/ \E c \in WxCallers : WxGet(c)
  \/ \E c \in WxCallers : WxStore(c)

SpecWeather == WeatherInit /\ [][WeatherNext]_vars

(***************************************************************************)
(* Properties of the weather service.                                      *)
(***************************************************************************)
\* The live call of a finished generate_weather_data failed: the snapshot
\* fetch raised (no API key, transport error, HTTP error status, body not
\* JSON) or get_live_weather_data raised on the payload.
LiveCallFailed(call) ==
  \/ call.fetch = "raised"
  \/ call.snapshot.raw = "malformed"

\* C11: generate_weather_data never hands a failure of the weather provider
\* to its caller: when the live call fails it returns the synthetic fallback
\* snapshot, whose provider and description mark the data as simulated, and
\* when the live call succeeds it returns the live snapshot.
WeatherFailureGivesFallback ==
  \A c \in WxCallers :
    LET call == wx_calls[c]
    IN  (call.entry = "generate_weather_data" /\ call.pc = "done") =>
          /\ call.result.kind \in {"live", "fallback"}
          /\ LiveCallFailed(call) =>
               /\ call.result.kind = "fallback"
               /\ call.result.provider = "Simulacion interna (fallback)"
               /\ call.result.description
                    = "Datos simulados por indisponibilidad de OpenWeather"
          /\ ~LiveCallFailed(call) =>
               /\ call.result.kind = "live"
               /\ call.result.provider = "OpenWeather One Call 2.5"
               /\ call.result.fetchedAt = call.snapshot.fetchedAt

\* One caller got the fallback after an HTTP error while the other got live data.
WitnessWeatherFallback ==
  \E c, d \in WxCallers :
    /\ wx_calls[c].entry = "generate_weather_data"
    /\ wx_calls[c].pc = "done"
    /\ wx_calls[c].response = "http_error"
    /\ wx_calls[c].result = FallbackWeather
    /\ wx_calls[d].entry = "generate_weather_data"
    /\ wx_calls[d].pc = "done"
    /\ wx_calls[d].result.kind = "live"

\* What holds of every call in every state (C12).
CacheServedOnlyWhenFresh ==
  \A c \in WxCallers :
    LET call == wx_calls[c]
    IN  /\ call.fetch = "cached" =>
             /\ ~call.force
             /\ ~call.upstream
             /\ call.checked_at - call.snapshot.fetchedAt < CACHE_TTL_SECONDS
        /\ (call.pc # "idle" /\ call.fetch # "cached") =>
             \/ call.upstream
             \/ OPENWEATHER_API_KEY = "None" /\ call.fetch = "raised"
        /\ call.fetch = "fetched" =>
             /\ call.upstream
             /\ call.snapshot.fetchedAt >= call.checked_at

\* What holds of every step (C12).
CacheReplacedOnlyByFetch ==
  /\ _cached_snapshot' # _cached_snapshot =>
       \E c \in WxCallers :
         /\ wx_calls[c].pc = "aclose"
         /\ wx_calls[c].response \in Payloads
         /\ wx_calls'[c].fetch = "fetched"
         /\ _cached_snapshot' = [raw |-> wx_calls[c].response, fetchedAt |-> utcnow]
         /\ wx_calls'[c].snapshot = _cached_snapshot'
  /\ \A c \in WxCallers :
       (wx_calls[c].fetch # "raised" /\ wx_calls'[c].fetch = "raised") =>
         _cached_snapshot' = _cached_snapshot

\* C12: under any interleaving of concurrent calls, _fetch_openweather_snapshot
\* returns the cached snapshot without a provider call only when its age at
\* the check is below 60 seconds, and otherwise goes to the provider (raising
\* first if no API key is configured); the cache entry is replaced only by a
\* successfully fetched snapshot whose payload and fetchedAt come from the
\* same fetch, a failed fetch leaves the entry as it was, and no snapshot
\* that was 60 seconds old or older at the check is served.
WeatherCacheContract ==
  []CacheServedOnlyWhenFresh /\ [][CacheReplacedOnlyByFetch]_vars

\* One caller was served from the cache at a positive age; the other found
\* the entry too old, went to the provider, failed, and the entry is still
\* the old one.
WitnessWeatherCache ==
  \E c, d \in WxCallers :
    /\ wx_calls[c].fetch = "cached"
    /\ wx_calls[c].checked_at - wx_calls[c].snapshot.fetchedAt = ClockStep
    /\ wx_calls[d].fetch = "raised"
    /\ wx_calls[d].upstream
    /\ _cached_snapshot # NoSnapshot
    /\ wx_calls[d].checked_at - _cached_snapshot.fetchedAt >= CACHE_TTL_SECONDS

(***************************************************************************)
(* Hourly Forecast Generator and Blackout Adjuster.                        *)
(*                                                                         *)
(* Numbers.  A solar context carries capacityKw in hundredths of a kW,     *)
(* panelEfficiency in thousandths and arrayAreaM2 in tenths of a square    *)
(* metre.  Radiation is W/m2 in multiples of 100, temperature is degrees   *)
(* in multiples of 25 and cloud cover is percent in multiples of 20, so    *)
(* the factors of predict_production are exact in tenths and its product   *)
(* is an exact count of 1 / ProductionScale kW.                            *)
(***************************************************************************)
MaxForecastHours == 3

ProductionScale == 2000000

BLACKOUT_LOAD_FACTOR == 60

BLACKOUT_PRODUCTION_FACTOR == 85

BLACKOUT_CONFIDENCE_PENALTY == 12

\* Contexts as _resolve_solar_context returns them: the default system
\* (50 kW, 21.8 %, 10 panels of 2.6 m2), and two arrays whose rated
\* capacity (1.10 kW, 0.01 kW) lies below what their area can yield.
Contexts ==
  { [capacityKw |-> 5000, panelEfficiency |-> 218, arrayAreaM2 |-> 260],
    [capacityKw |-> 110,  panelEfficiency |-> 200, arrayAreaM2 |-> 100],
    [capacityKw |-> 1,    panelEfficiency |-> 200, arrayAreaM2 |-> 26] }

\* The forecast day the generator reads (its cloudCover); NoForecast is a
\* day that is falsy (an empty entry), which makes every iteration `continue`.
ForecastDays == { [cloudCover |-> 0], [cloudCover |-> 100], [cloudCover |-> 220] }

NoForecast == [cloudCover |-> 0 - 1]

\* The hour of datetime.utcnow() when the generator starts.
NowHours == {5, 12, 19, 22}

\* What _estimate_hourly_solar_radiation (random) and
\* _estimate_hourly_temperature can hand to predict_production.
RadiationInputs == {0 - 100, 0, 1000}

TemperatureInputs == {0, 25, 300}

\* _get_hour_efficiency_factor, in twentieths
_get_hour_efficiency_factor(hour) ==
  IF 12 <= hour /\ hour <= 14 THEN 20
  ELSE IF 11 <= hour /\ hour <= 15 THEN 19
  ELSE IF 10 <= hour /\ hour <= 16 THEN 17
  ELSE IF 8 <= hour /\ hour <= 17 THEN 14
  ELSE IF 7 <= hour /\ hour <= 18 THEN 10
  ELSE IF 6 <= hour /\ hour <= 19 THEN 6
  ELSE 0

\* temp_factor = 1 - (temperature - 25) * 0.004, in tenths
TempFactor(temperature) == 10 - (temperature - 25) \div 25

\* cloud_factor = 1 - (cloud_cover / 100) * 0.5, in tenths
CloudFactor(cloud_cover) == 10 - cloud_cover \div 20

\* The product of lines 101-106, in 1 / ProductionScale kW.
RawProduction(solar_radiation, temperature, cloud_cover, hour, context) ==
  (solar_radiation \div 100) * context.arrayAreaM2 * context.panelEfficiency
    * TempFactor(temperature) * CloudFactor(cloud_cover)
    * _get_hour_efficiency_factor(hour)

\* The capacity in the same unit.
CapacityRaw(context) == context.capacityKw * (ProductionScale \div 100)

\* Variant: the capacity cap of line 107 is left out.
predict_production_uncapped(solar_radiation, temperature, cloud_cover, hour, context) ==
  LET production == RawProduction(solar_radiation, temperature, cloud_cover, hour, context)
      night == IF hour < 6 \/ hour > 20 THEN 0 ELSE production
  IN  RoundHalfEven(Max(0, night), ProductionScale \div 100)

\* Variant: the hour plays no part (no hour factor, no night rule).
predict_production_ignoring_hour(solar_radiation, temperature, cloud_cover, hour, context) ==
  LET production == RawProduction(solar_radiation, temperature, cloud_cover, 12, context)
      capped == Min(production, CapacityRaw(context))
  IN  RoundHalfEven(Max(0, capped), ProductionScale \div 100)

\* predict_production, in hundredths of a kW
predict_production(solar_radiation, temperature, cloud_cover, hour, context) ==
  LET production == RawProduction(solar_radiation, temperature, cloud_cover, hour, context)
      capped == Min(production, CapacityRaw(context))
      night == IF hour < 6 \/ hour > 20 THEN 0 ELSE capped
  IN  RoundHalfEven(Max(0, night), ProductionScale \div 100)

\* _predict_consumption, in ten-thousandths of a kWh
_predict_consumption(hour) ==
  IF (7 <= hour /\ hour <= 9) \/ (18 <= hour /\ hour <= 22) THEN 455000
  ELSE IF 6 <= hour /\ hour < 18 THEN 350000
  ELSE 180000

\* _calculate_prediction_confidence followed by round(confidence): the
\* value is counted in fifths of a percent until it is rounded.
_calculate_prediction_confidence(hours_ahead, cloud_cover) ==
  LET confidence == 5 * (95 - hours_ahead * 2) - cloud_cover
  IN  RoundHalfEven(Max(5 * 50, Min(5 * 95, confidence)), 5)

\* The dictionary generate_hourly_predictions appends for one hour_offset;
\* its timestamp is counted in hours from utcnow().
HourlyPrediction(hour_offset, now_hour, solar_radiation, temperature, forecast, context) ==
  LET hour == (now_hour + hour_offset) % 24
  IN  [timestamp |-> hour_offset,
       hour |-> hour,
       expectedProduction |->
         100 * predict_production(solar_radiation, temperature,
                                  forecast.cloudCover, hour, context),
       expectedConsumption |-> _predict_consumption(hour),
       confidence |-> _calculate_prediction_confidence(hour_offset, forecast.cloudCover)]

\* Schedule lists handed to the adjuster: those of the simulator, a list
\* whose only interval is empty, a schedule without intervals, and two
\* schedules that overlap in hour 1 and leave hour 2 free.
AdjusterBlackoutLists ==
  BlackoutLists \cup
    { << [intervals |-> << Interval(2, 2) >>] >>,
      << [intervals |-> << >>] >>,
      << [intervals |-> << Interval(1, 2) >>], [intervals |-> << Interval(0, 2) >>] >> }

\* next((window for window in windows if start <= timestamp < end), None):
\* the index of the first such window, 0 if there is none.
FirstWindow(ws, timestamp) ==
  IF BlackoutActive(ws, timestamp)
  THEN CHOOSE k \in 1..Len(ws) :
         /\ ws[k].start <= timestamp /\ timestamp < ws[k].end
         /\ \A j \in 1..(k - 1) : ~(ws[j].start <= timestamp /\ timestamp < ws[j].end)
  ELSE 0

\* _resolve_blackout_intensity (window bounds in hours)
_resolve_blackout_intensity(window) ==
  IF "durationMinutes" \in DOMAIN window.interval
  THEN IF window.interval.durationMinutes >= 180 THEN "severo" ELSE "moderado"
  ELSE IF window.end - window.start >= 3 THEN "severo" ELSE "moderado"

\* round(value * factor, 2) floored at 0, factor in percent
ScaledByFactor(value, factor) ==
  Max(0, 100 * RoundHalfEven((value \div 100) * factor, 100))

\* Variant: the confidence penalty without its floor.
BlackoutConfidenceNoFloor(confidence) == confidence - BLACKOUT_CONFIDENCE_PENALTY

\* max(40, prediction["confidence"] - BLACKOUT_CONFIDENCE_PENALTY)
BlackoutConfidence(confidence) == Max(40, confidence - BLACKOUT_CONFIDENCE_PENALTY)

\* One iteration of the adjuster's loop: the prediction itself, or
\* {**prediction, ...} with four keys set.
AdjustPrediction(prediction, ws) ==
  LET k == FirstWindow(ws, prediction.timestamp)
  IN  IF k = 0 THEN prediction
      ELSE [key \in DOMAIN prediction \cup {"blackoutImpact"} |->
              CASE key = "expectedProduction" ->
                     ScaledByFactor(prediction.expectedProduction,
                                    BLACKOUT_PRODUCTION_FACTOR)
                [] key = "expectedConsumption" ->
                     ScaledByFactor(prediction.expectedConsumption,
                                    BLACKOUT_LOAD_FACTOR)
                [] key = "confidence" -> BlackoutConfidence(prediction.confidence)
                [] key = "blackoutImpact" ->
                     [intervalStart |-> ws[k].interval.start,
                      intervalEnd |-> ws[k].interval.end,
                      loadFactor |-> BLACKOUT_LOAD_FACTOR,
                      productionFactor |-> BLACKOUT_PRODUCTION_FACTOR,
                      intensity |-> _resolve_blackout_intensity(ws[k])]
                [] OTHER -> prediction[key]]

\* Variant: every prediction is treated as lying in a blackout.
apply_blackout_adjustments_unconditional(preds, blackoutList) ==
  [i \in 1..Len(preds) |->
     [preds[i] EXCEPT
        !.expectedProduction = ScaledByFactor(@, BLACKOUT_PRODUCTION_FACTOR),
        !.expectedConsumption = ScaledByFactor(@, BLACKOUT_LOAD_FACTOR),
        !.confidence = BlackoutConfidence(@)]]

\* apply_blackout_adjustments
apply_blackout_adjustments(preds, blackoutList) ==
  IF blackoutList = << >> THEN preds
  ELSE LET ws == _flatten_blackout_windows(blackoutList)
       IN  IF ws = << >> THEN preds
           ELSE [i \in 1..Len(preds) |-> AdjustPrediction(preds[i], ws)]

ForecastInit ==
  /\ fc_pc = "generating"
  /\ fc_context \in Contexts
  /\ fc_forecast \in ForecastDays \cup {NoForecast}
  /\ fc_now_hour \in NowHours
  /\ fc_predictions = << >>
  /\ fc_production_call = NoProductionCall
  /\ fc_blackouts = << >>
  /\ fc_adjusted = << >>
  /\ TimelineIdle
  /\ DischargeIdle
  /\ LifecycleIdle
  /\ SingletonsIdle
  /\ WeatherIdle
  /\ EnergyFlowIdle
  /\ AlertsIdle
  /\ PathsIdle
  /\ LastIdle

\* for hour_offset in range(24): one iteration with a forecast.
ForecastHour ==
  /\ fc_pc = "generating"
  /\ fc_forecast # NoForecast
  /\ Len(fc_predictions) < MaxForecastHours
  /\ \E solar_radiation \in RadiationInputs : \E temperature \in TemperatureInputs :
       LET hour_offset == Len(fc_predictions)
           hour == (fc_now_hour + hour_offset) % 24
       IN  /\ fc_predictions' = Append(fc_predictions,
                 HourlyPrediction(hour_offset, fc_now_hour, solar_radiation,
                                  temperature, fc_forecast, fc_context))
           /\ fc_production_call' =
                [solar_radiation |-> solar_radiation, temperature |-> temperature,
                 cloud_cover |-> fc_forecast.cloudCover, hour |-> hour,
                 result |-> predict_production(solar_radiation, temperature,
                                               fc_forecast.cloudCover, hour, fc_context)]
  /\ UNCHANGED <<fc_pc, fc_context, fc_forecast, fc_now_hour, fc_blackouts, fc_adjusted>>
  /\ UNCHANGED outsideForecast

\* return predictions: after the last iteration, or at once when the
\* forecast day is falsy (every iteration hits `continue`).
ForecastReturn ==
  /\ fc_pc = "generating"
  /\ fc_forecast = NoForecast \/ Len(fc_predictions) = MaxForecastHours
  /\ fc_pc' = "generated"
  /\ UNCHANGED <<fc_context, fc_forecast, fc_now_hour, fc_predictions,
                 fc_production_call, fc_blackouts, fc_adjusted>>
  /\ UNCHANGED outsideForecast

\* adjusted_predictions = apply_blackout_adjustments(predictions, blackouts)
ForecastAdjust ==
  /\ fc_pc = "generated"
  /\ \E blackoutList \in AdjusterBlackoutLists :
       /\ fc_blackouts' = blackoutList
       /\ fc_adjusted' = apply_blackout_adjustments(fc_predictions, blackoutList)
  /\ fc_pc' = "adjusted"
  /\ UNCHANGED <<fc_context, fc_forecast, fc_now_hour, fc_predictions, fc_production_call>>
  /\ UNCHANGED outsideForecast

ForecastNext == ForecastHour \/ ForecastReturn \/ ForecastAdjust

SpecForecast == ForecastInit /\ [][ForecastNext]_vars

(***************************************************************************)
(* Properties of the forecast generator and the blackout adjuster.         *)
(***************************************************************************)
\* C14: apply_blackout_adjustments called with an empty schedule list, or
\* with schedules that yield no valid window, returns the prediction list
\* it was given: same length, same order, every element equal.
NoBlackoutNoAdjustment ==
  (fc_pc = "adjusted" /\ _flatten_blackout_windows(fc_blackouts) = << >>) =>
    /\ Len(fc_adjusted) = Len(fc_predictions)
    /\ \A i \in 1..Len(fc_predictions) : fc_adjusted[i] = fc_predictions[i]

\* Schedules were given, none of them has a valid window, and a full list
\* of predictions came back.
WitnessNoBlackoutNoAdjustment ==
  /\ fc_pc = "adjusted"
  /\ fc_blackouts # << >>
  /\ _flatten_blackout_windows(fc_blackouts) = << >>
  /\ Len(fc_predictions) = MaxForecastHours
  /\ fc_adjusted = fc_predictions

\* The timestamp lies in a window of the schedules handed to the adjuster.
InAdjusterWindow(timestamp) ==
  \E s \in 1..Len(fc_blackouts) :
    \E k \in 1..Len(fc_blackouts[s].intervals) :
      LET interval == fc_blackouts[s].intervals[k]
      IN  /\ interval.start < interval.end
          /\ interval.start <= timestamp
          /\ timestamp < interval.end

\* C15: every generated prediction has a confidence within [50, 95]; a
\* prediction whose timestamp falls inside a blackout window leaves the
\* adjuster with confidence max(40, original - 12), never below 40.
BlackoutConfidenceRule ==
  /\ \A i \in 1..Len(fc_predictions) :
       50 <= fc_predictions[i].confidence /\ fc_predictions[i].confidence <= 95
  /\ fc_pc = "adjusted" =>
       \A i \in 1..Len(fc_adjusted) :
         /\ fc_adjusted[i].confidence >= 40
         /\ InAdjusterWindow(fc_predictions[i].timestamp) =>
              /\ fc_adjusted[i].confidence
                   = (IF fc_predictions[i].confidence - 12 >= 40
                      THEN fc_predictions[i].confidence - 12 ELSE 40)
              /\ "blackoutImpact" \in DOMAIN fc_adjusted[i]

\* In one adjusted list the floor of 40 applied to a prediction of
\* confidence 51 inside a window, and a prediction outside every window
\* kept its confidence.
WitnessBlackoutConfidence ==
  /\ fc_pc = "adjusted"
  /\ \E i, j \in 1..Len(fc_adjusted) :
       /\ InAdjusterWindow(fc_predictions[i].timestamp)
       /\ fc_predictions[i].confidence = 51
       /\ fc_adjusted[i].confidence = 40
       /\ ~InAdjusterWindow(fc_predictions[j].timestamp)
       /\ fc_adjusted[j].confidence = fc_predictions[j].confidence

\* C16: for every installed capacity C > 0, every hour in 6..20 and every
\* radiation, temperature and cloud cover, predict_production returns a
\* value within [0, C].
ProductionWithinCapacity ==
  (fc_production_call # NoProductionCall
     /\ fc_context.capacityKw > 0
     /\ 6 <= fc_production_call.hour /\ fc_production_call.hour <= 20) =>
    /\ 0 <= fc_production_call.result
    /\ fc_production_call.result <= fc_context.capacityKw

\* At a midday hour the product exceeded the capacity and the capacity came back.
WitnessProductionCapped ==
  /\ fc_production_call # NoProductionCall
  /\ fc_production_call.hour \in 12..14
  /\ RawProduction(fc_production_call.solar_radiation, fc_production_call.temperature,
                   fc_production_call.cloud_cover, fc_production_call.hour, fc_context)
       > CapacityRaw(fc_context)
  /\ fc_production_call.result = fc_context.capacityKw

\* C17: for every hour below 6 or above 20 and every radiation, temperature,
\* cloud cover and configuration, predict_production returns exactly 0.
NoProductionAtNight ==
  (fc_production_call # NoProductionCall
     /\ (fc_production_call.hour < 6 \/ fc_production_call.hour > 20)) =>
    fc_production_call.result = 0

\* A call for hour 21 with full radiation under a clear sky returned 0.
WitnessNoProductionAtNight ==
  /\ fc_production_call # NoProductionCall
  /\ fc_production_call.hour = 21
  /\ fc_production_call.solar_radiation = 1000
  /\ fc_production_call.cloud_cover = 0
  /\ fc_production_call.temperature = 25
  /\ fc_production_call.result = 0

(***************************************************************************)
(* Energy-Flow Calculator (analytics.py).  Its caller hands it values of a *)
(* timeline point and of the battery projection, all rounded to two        *)
(* decimals: multiples of 100 in ten-thousandths of a kW.                  *)
(***************************************************************************)
FlowProductions == {0, 42500, 50000, 60000, 100000}

FlowConsumptions == {0, 42500, 60000, 80000, 100000}

FlowPowerFlows == {0 - 50000, 0 - 20000, 0 - 100, 0, 100, 30000, 80000}

\* Variant: the surplus goes to the battery whatever its state.
SolarToBatteryWholeSurplus(surplus, battery_charging, battery_power_flow) == surplus

\* surplus > 0: what the battery absorbs (lines 45-49)
SolarToBattery(surplus, battery_charging, battery_power_flow) ==
  IF battery_charging /\ battery_power_flow > 0
  THEN Min(surplus, Abs(battery_power_flow))
  ELSE 0

\* Variant: the battery covers the deficit whatever its direction.
BatteryToLoadIgnoringDirection(deficit, battery_charging, battery_power_flow) ==
  Min(deficit, Abs(battery_power_flow))

\* surplus <= 0: what the battery delivers (lines 53-57)
BatteryToLoad(deficit, battery_charging, battery_power_flow) ==
  IF ~battery_charging /\ battery_power_flow < 0
  THEN Min(deficit, Abs(battery_power_flow))
  ELSE 0

calculate_energy_flow(production, consumption, battery_charging, battery_power_flow) ==
  LET surplus == production - consumption
      deficit == Abs(surplus)
      solar_to_battery == SolarToBattery(surplus, battery_charging, battery_power_flow)
      battery_to_load == BatteryToLoad(deficit, battery_charging, battery_power_flow)
  IN  IF surplus > 0
      THEN [solarToBattery |-> Round2(solar_to_battery),
            solarToLoad |-> Round2(consumption),
            solarToGrid |-> Round2(surplus - solar_to_battery),
            batteryToLoad |-> 0,
            gridToLoad |-> 0]
      ELSE [solarToBattery |-> 0,
            solarToLoad |-> Round2(production),
            solarToGrid |-> 0,
            batteryToLoad |-> Round2(battery_to_load),
            gridToLoad |-> Round2(deficit - battery_to_load)]

EnergyFlowInit ==
  /\ ef_pc = "called"
  /\ ef_args \in [production : FlowProductions, consumption : FlowConsumptions,
                  battery_charging : BOOLEAN, battery_power_flow : FlowPowerFlows]
  /\ ef_result = [status |-> "none"]
  /\ TimelineIdle
  /\ DischargeIdle
  /\ LifecycleIdle
  /\ SingletonsIdle
  /\ WeatherIdle
  /\ ForecastIdle
  /\ AlertsIdle
  /\ PathsIdle
  /\ LastIdle

EnergyFlowReturn ==
  /\ ef_pc = "called"
  /\ ef_result' = calculate_energy_flow(ef_args.production, ef_args.consumption,
                                        ef_args.battery_charging,
                                        ef_args.battery_power_flow)
  /\ ef_pc' = "returned"
  /\ UNCHANGED ef_args
  /\ UNCHANGED outsideEnergyFlow

EnergyFlowNext == EnergyFlowReturn

SpecEnergyFlow == EnergyFlowInit /\ [][EnergyFlowNext]_vars

(***************************************************************************)
(* Properties of the Energy-Flow Calculator.                               *)
(***************************************************************************)
\* C18: with production > consumption, calculate_energy_flow returns
\* solarToLoad = consumption and batteryToLoad = gridToLoad = 0, and splits
\* the surplus: solarToBattery + solarToGrid = surplus, with solarToBattery
\* = min(surplus, |flow|) when the battery is charging with positive flow
\* and 0 otherwise; calculate_energy_flow(10, 6, true, 3) gives 6 to the
\* load, 3 to the battery, 1 to the grid.
SurplusFlowSplit ==
  (ef_pc = "returned" /\ ef_args.production > ef_args.consumption) =>
    LET surplus == ef_args.production - ef_args.consumption
        flow == ef_args.battery_power_flow
        magnitude == IF flow >= 0 THEN flow ELSE 0 - flow
    IN  /\ ef_result.solarToLoad = ef_args.consumption
        /\ ef_result.batteryToLoad = 0
        /\ ef_result.gridToLoad = 0
        /\ ef_result.solarToBattery + ef_result.solarToGrid = surplus
        /\ ef_result.solarToBattery =
             (IF ef_args.battery_charging /\ flow > 0
              THEN (IF surplus <= magnitude THEN surplus ELSE magnitude)
              ELSE 0)
        /\ ef_args = [production |-> 100000, consumption |-> 60000,
                      battery_charging |-> TRUE, battery_power_flow |-> 30000] =>
             ef_result = [solarToLoad |-> 60000, solarToBattery |-> 30000,
                          solarToGrid |-> 10000, batteryToLoad |-> 0,
                          gridToLoad |-> 0]

\* The call of the example has returned.
WitnessSurplusFlowSplit ==
  /\ ef_pc = "returned"
  /\ ef_args = [production |-> 100000, consumption |-> 60000,
                battery_charging |-> TRUE, battery_power_flow |-> 30000]
  /\ ef_result.solarToBattery = 30000
  /\ ef_result.solarToGrid = 10000

\* C19: with production <= consumption, calculate_energy_flow returns
\* solarToLoad = production and solarToBattery = solarToGrid = 0, and covers
\* the deficit: batteryToLoad + gridToLoad = deficit, with batteryToLoad =
\* min(deficit, |flow|) when the battery is discharging (not charging,
\* flow < 0) and 0 otherwise; calculate_energy_flow(5, 8, false, -2) gives
\* 5 from the sun, 2 from the battery, 1 from the grid.
DeficitFlowCover ==
  (ef_pc = "returned" /\ ef_args.production <= ef_args.consumption) =>
    LET deficit == ef_args.consumption - ef_args.production
        flow == ef_args.battery_power_flow
        magnitude == IF flow >= 0 THEN flow ELSE 0 - flow
    IN  /\ ef_result.solarToLoad = ef_args.production
        /\ ef_result.solarToBattery = 0
        /\ ef_result.solarToGrid = 0
        /\ ef_result.batteryToLoad + ef_result.gridToLoad = deficit
        /\ ef_result.batteryToLoad =
             (IF ~ef_args.battery_charging /\ flow < 0
              THEN (IF deficit <= magnitude THEN deficit ELSE magnitude)
              ELSE 0)
        /\ ef_args = [production |-> 50000, consumption |-> 80000,
                      battery_charging |-> FALSE, battery_power_flow |-> 0 - 20000] =>
             ef_result = [solarToLoad |-> 50000, solarToBattery |-> 0,
                          solarToGrid |-> 0, batteryToLoad |-> 20000,
                          gridToLoad |-> 10000]

\* The call of the example has returned.
WitnessDeficitFlowCover ==
  /\ ef_pc = "returned"
  /\ ef_args = [production |-> 50000, consumption |-> 80000,
                battery_charging |-> FALSE, battery_power_flow |-> 0 - 20000]
  /\ ef_result.batteryToLoad = 20000
  /\ ef_result.gridToLoad = 10000

(***************************************************************************)
(* Battery Projection Summarizer and Alert Engine.  Levels are hundredths  *)
(* of a percent, daily production forecasts are tenths of a kWh, `now` and *)
(* window bounds are half minutes.  Of an alert the model keeps id and     *)
(* type (and the start that a planned-blackout id is built from), not its  *)
(* texts.                                                                  *)
(***************************************************************************)
\* min / max of the battery levels of a non-empty timeline
MinLevel(tl) ==
  CHOOSE v \in {tl[i].batteryLevel : i \in 1..Len(tl)} :
    \A i \in 1..Len(tl) : v <= tl[i].batteryLevel

MaxLevel(tl) ==
  CHOOSE v \in {tl[i].batteryLevel : i \in 1..Len(tl)} :
    \A i \in 1..Len(tl) : v >= tl[i].batteryLevel

\* generate_battery_projection, without current, autonomyHours and note
generate_battery_projection(tl, preds, capacity) ==
  [chargeLevel |-> IF tl # << >> THEN tl[1].batteryLevel ELSE 5500,
   capacity |-> capacity,
   charging |-> (IF tl # << >> THEN tl[1].batteryDelta ELSE 0) >= 0,
   powerFlow |-> IF tl # << >> THEN Round2(tl[1].batteryDelta) ELSE 0,
   projectedMinLevel |-> IF tl # << >> THEN MinLevel(tl) ELSE 5500,
   projectedMaxLevel |-> IF tl # << >> THEN MaxLevel(tl) ELSE 5500]

\* battery_status.get("projectedMinLevel", starting_level)
ProjectedMin(battery_status) ==
  IF "projectedMinLevel" \in DOMAIN battery_status
  THEN battery_status.projectedMinLevel
  ELSE battery_status.chargeLevel

\* projected_min < 20
IsBatteryLow(projected_min) == projected_min < 2000

\* Variant: the critical alert fires below 25 %.
IsBatteryCriticalBelow25(projected_min) == projected_min < 2500

\* projected_min < 10
IsBatteryCritical(projected_min) == projected_min < 1000

Alert(id, type) == [id |-> id, type |-> type]

RECURSIVE SumDeficit(_, _)
SumDeficit(preds, n) ==
  IF n = 0 THEN 0
  ELSE SumDeficit(preds, n - 1)
         + Max(0, preds[n].expectedConsumption - preds[n].expectedProduction)

\* next((window for window in blackout_windows if window["start"] > now), None)
UpcomingWindow(ws, now) ==
  IF \E k \in 1..Len(ws) : ws[k].start > now
  THEN CHOOSE k \in 1..Len(ws) :
         /\ ws[k].start > now
         /\ \A j \in 1..(k - 1) : ~(ws[j].start > now)
  ELSE 0

\* "critical" if (interval.get("durationMinutes") or 0) > 180 else "warning"
PlannedBlackoutSeverity(window) ==
  IF "durationMinutes" \in DOMAIN window.interval
     /\ window.interval.durationMinutes > 180
  THEN "critical" ELSE "warning"

\* generate_alerts: the alerts in the order they are appended.
generate_alerts(preds, battery_status, weather_forecast, blackoutList, now) ==
  LET projected_min == ProjectedMin(battery_status)
      blackout_windows == _flatten_blackout_windows(blackoutList)
      next_6_hours == Take(preds, 6)
      upcoming == UpcomingWindow(blackout_windows, now)
  IN  (IF IsBatteryLow(projected_min)
       THEN << Alert("battery-low", "warning") >> ELSE << >>)
      \o (IF IsBatteryCritical(projected_min)
          THEN << Alert("battery-critical", "critical") >> ELSE << >>)
      \o (IF Len(weather_forecast) > 1 /\ weather_forecast[2].predictedProduction < 1500
          THEN << Alert("low-production-forecast", "warning") >> ELSE << >>)
      \o (IF weather_forecast # << >> /\ weather_forecast[1].predictedProduction > 3500
          THEN << Alert("high-production-forecast", "info") >> ELSE << >>)
      \o (IF next_6_hours # << >>
             /\ SumDeficit(next_6_hours, Len(next_6_hours)) > 100000 * Len(next_6_hours)
             /\ projected_min < 5000
          THEN << Alert("deficit-warning", "warning") >> ELSE << >>)
      \o (IF upcoming # 0
          THEN << [id |-> "planned-blackout", start |-> blackout_windows[upcoming].start,
                   type |-> PlannedBlackoutSeverity(blackout_windows[upcoming])] >>
          ELSE << >>)

AlertLevels == {0, 999, 1000, 1999, 2000, 4999, 5500}

\* Battery statuses: those of generate_battery_projection (the minimum is
\* at most the charge level), and dictionaries without projectedMinLevel.
BatteryStatuses ==
  { status \in [chargeLevel : AlertLevels, projectedMinLevel : AlertLevels] :
      status.projectedMinLevel <= status.chargeLevel }
  \cup { [chargeLevel |-> l] : l \in AlertLevels }

ForecastDay(predictedProduction) == [predictedProduction |-> predictedProduction]

AlertForecasts ==
  { << >>,
    << ForecastDay(3600) >>,
    << ForecastDay(3500), ForecastDay(1499) >>,
    << ForecastDay(1000), ForecastDay(1500) >> }

AlertPredictions == { p \in PredictionLists : Len(p) <= 1 }

\* An interval as _ensure_valid_intervals stores it, start and end counted
\* in half minutes: durationMinutes = int((end - start).total_seconds() / 60).
StoredInterval(s, e) == [start |-> s, end |-> e, durationMinutes |-> (e - s) \div 2]

\* Stored schedules (half minutes): none; windows of 180, 180.5 and 181
\* minutes; two schedule days whose windows arrive out of start order; a
\* day with a short window before a long one.
AlertBlackoutLists ==
  { << >>,
    << [intervals |-> << StoredInterval(120, 480) >>] >>,
    << [intervals |-> << StoredInterval(120, 481) >>] >>,
    << [intervals |-> << StoredInterval(120, 482) >>] >>,
    << [intervals |-> << StoredInterval(600, 1200) >>],
       [intervals |-> << StoredInterval(120, 300) >>] >>,
    << [intervals |-> << StoredInterval(60, 100), StoredInterval(200, 700) >>] >> }

\* datetime.utcnow() of line 376, in half minutes
AlertNows == {0, 120, 700}

AlertsInit ==
  /\ al_pc = "called"
  /\ al_args \in [predictions : AlertPredictions, battery_status : BatteryStatuses,
                  weather_forecast : AlertForecasts, blackouts : AlertBlackoutLists,
                  now : AlertNows]
  /\ al_alerts = << >>
  /\ TimelineIdle
  /\ DischargeIdle
  /\ LifecycleIdle
  /\ SingletonsIdle
  /\ WeatherIdle
  /\ ForecastIdle
  /\ EnergyFlowIdle
  /\ PathsIdle
  /\ LastIdle

AlertsReturn ==
  /\ al_pc = "called"
  /\ al_alerts' = generate_alerts(al_args.predictions, al_args.battery_status,
                                  al_args.weather_forecast, al_args.blackouts,
                                  al_args.now)
  /\ al_pc' = "returned"
  /\ UNCHANGED al_args
  /\ UNCHANGED outsideAlerts

AlertsNext == AlertsReturn

SpecAlerts == AlertsInit /\ [][AlertsNext]_vars

(***************************************************************************)
(* Properties of the Alert Engine.                                         *)
(***************************************************************************)
\* The positions of the alerts with an id in the returned list.
AlertPositions(id) == {i \in 1..Len(al_alerts) : al_alerts[i].id = id}

\* The projected minimum the call was given.
GivenProjectedMin ==
  IF "projectedMinLevel" \in DOMAIN al_args.battery_status
  THEN al_args.battery_status.projectedMinLevel
  ELSE al_args.battery_status.chargeLevel

\* C20: in every list returned by generate_alerts, "battery-critical" is
\* present only if "battery-low" is present and precedes it; battery-low is
\* present exactly when projectedMinLevel < 20 and battery-critical exactly
\* when projectedMinLevel < 10.
CriticalOnlyWithLow ==
  al_pc = "returned" =>
    /\ AlertPositions("battery-low") # {} <=> GivenProjectedMin < 2000
    /\ AlertPositions("battery-critical") # {} <=> GivenProjectedMin < 1000
    /\ \A c \in AlertPositions("battery-critical") :
         \E l \in AlertPositions("battery-low") : l < c

\* Both alerts were returned at 9.99 %, followed by other alerts.
WitnessCriticalWithLow ==
  /\ al_pc = "returned"
  /\ GivenProjectedMin = 999
  /\ Len(al_alerts) > 2
  /\ al_alerts[1].id = "battery-low"
  /\ al_alerts[2].id = "battery-critical"

(***************************************************************************)
(* Request paths: get_solar_snapshot (solar_service.py) and                *)
(* get_predictions_bundle (prediction_service.py), step by step.  Time is  *)
(* counted in hours from datetime.utcnow(), as in the timeline simulator.  *)
(***************************************************************************)
\* build_projected_solar_timeline as a function of its arguments: the loop
\* of HourStep / TimelinePoint from prediction i on.
RECURSIVE SimulateFrom(_, _, _, _, _)
SimulateFrom(preds, i, capacity, stored, ws) ==
  IF i > Len(preds) THEN << >>
  ELSE LET step == HourStep(preds[i], capacity, stored, ws)
       IN  << TimelinePoint(preds[i], capacity, step) >>
             \o SimulateFrom(preds, i + 1, capacity, step.stored_energy, ws)

build_projected_solar_timeline(preds, capacity, initial_level, blackoutList) ==
  SimulateFrom(Take(preds, TIMELINE_HOURS), 1, capacity,
               InitialStoredEnergy(initial_level, capacity),
               _flatten_blackout_windows(blackoutList))

\* calculate_system_metrics, without co2Avoided
RECURSIVE SumField(_, _, _)
SumField(tl, field, n) ==
  IF n = 0 THEN 0 ELSE SumField(tl, field, n - 1) + tl[n][field]

calculate_system_metrics(current, historical) ==
  [currentProduction |-> Round2(current.production),
   currentConsumption |-> Round2(current.consumption),
   energyBalance |-> Round2(current.production - current.consumption),
   systemEfficiency |-> current.efficiency,
   dailyProduction |-> Round2(SumField(historical, "production", Len(historical))),
   dailyConsumption |-> Round2(SumField(historical, "consumption", Len(historical)))]

\* generate_recommendations: the recommendations in the order they are
\* appended, each named by its condition instead of its text.
generate_recommendations(preds, battery_status, solarCapacityKw, blackoutList, hour) ==
  LET solar_capacity == Max(IF solarCapacityKw = 0 THEN 1 ELSE solarCapacityKw, 1)
      current_production == IF preds # << >> THEN preds[1].expectedProduction ELSE 0
      current_consumption == IF preds # << >> THEN preds[1].expectedConsumption ELSE 0
      battery_level == battery_status.chargeLevel
      projected_min == ProjectedMin(battery_status)
      projected_max == IF "projectedMaxLevel" \in DOMAIN battery_status
                       THEN battery_status.projectedMaxLevel ELSE battery_level
      next_three == Take(preds, 3)
      ws == _flatten_blackout_windows(blackoutList)
      blackout_now == preds # << >> /\ "blackoutImpact" \in DOMAIN preds[1]
      midnight == 0 - hour
      upcoming == \E k \in 1..Len(ws) : ws[k].start >= midnight
  IN  (IF 10 * current_production > 12 * current_consumption
       THEN << "surplus-now" >> ELSE << >>)
      \o (IF next_three # << >> /\ projected_min < 4000
             /\ SumField(next_three, "expectedProduction", Len(next_three))
                  > 300000 * Len(next_three)
          THEN << "await-solar-peak" >> ELSE << >>)
      \o (IF 9 <= hour /\ hour <= 11 /\ projected_max < 8500
          THEN << "peak-approaching" >> ELSE << >>)
      \o (IF 16 <= hour /\ hour <= 18 /\ projected_min < 5000
          THEN << "sunset" >> ELSE << >>)
      \o (IF 10 * current_production > 8 * solar_capacity
          THEN << "near-capacity" >> ELSE << >>)
      \o (IF preds # << >> /\ 10 * preds[1].expectedProduction < 3 * solar_capacity
          THEN << "low-production" >> ELSE << >>)
      \o (IF blackout_now THEN << "blackout-now" >> ELSE << >>)
      \o (IF upcoming /\ ~blackout_now THEN << "blackout-upcoming" >> ELSE << >>)

PathNames == {"get_solar_snapshot", "get_predictions_bundle"}

\* for hour_offset in range(24)
FORECAST_HOURS == 24

\* A forecast day that is not there (None).
NoDay == [none |-> TRUE]

\* Variant: a missing second day is not replaced by the first one.
ForecastForNoFallback(weather_forecast, hour_offset) ==
  IF hour_offset < 12 THEN weather_forecast[1]
  ELSE IF Len(weather_forecast) > 1 THEN weather_forecast[2] ELSE NoDay

\* forecast_candidate or fallback_forecast of one iteration, for a non-empty
\* weather_forecast: day 0 before offset 12, then day 1, or day 0 if there
\* is no day 1.
ForecastFor(weather_forecast, hour_offset) ==
  LET fallback_forecast == weather_forecast[1]
      forecast_candidate ==
        IF hour_offset < 12 THEN weather_forecast[1]
        ELSE IF Len(weather_forecast) > 1 THEN weather_forecast[2] ELSE NoDay
  IN  IF forecast_candidate # NoDay THEN forecast_candidate ELSE fallback_forecast

\* generate_hourly_predictions seen from its caller.  On an empty list
\* weather_forecast[0] of the first iteration raises IndexError; otherwise
\* the result holds, in order, the prediction of every hour_offset for which
\* a forecast day was found (`hourly` is what the loop body computes for the
\* hour offsets 0..23).
generate_hourly_predictions(weather_forecast, hourly) ==
  IF weather_forecast = << >> THEN Raised("IndexError")
  ELSE Returned(SelectSeq(hourly,
                          LAMBDA p : ForecastFor(weather_forecast, p.timestamp) # NoDay))

\* What the loop body computes: one prediction per hour offset, or nothing
\* to compute when there is no forecast.
PathPredictions(forecast) ==
  IF forecast = << >> THEN { << >> }
  ELSE { LongPredictions(FORECAST_HOURS, shift, PredictionCycle[1]) : shift \in 0..2 }

\* A day that opens with 5.5 kWh produced and 1.23 kWh consumed: a surplus of
\* an odd number of hundredths.
OddSurplusPredictions ==
  [i \in 1..FORECAST_HOURS |->
     IF i = 1
     THEN [timestamp |-> 0, expectedProduction |-> 55000,
           expectedConsumption |-> 12300, confidence |-> 83]
     ELSE LongPredictions(FORECAST_HOURS, 0, PredictionCycle[1])[i]]

\* The same day behind a 0.1 kWh battery, whose free room at 55 % is 0.045 kWh.
SmallBatteryWorlds ==
  UNION { [capacityKwh : {1000}, solarCapacityKw : {200, 500000},
           blackouts : { << >> }, forecast : {forecast},
           predictions : {OddSurplusPredictions}, hour : {10, 17}] :
          forecast \in AlertForecasts \ { << >> } }

\* What the collaborators of a request hold.
Worlds ==
  SmallBatteryWorlds \cup
  UNION { [capacityKwh : Capacities, solarCapacityKw : {200, 500000},
           blackouts : BlackoutLists, forecast : {forecast},
           predictions : PathPredictions(forecast), hour : {10, 17}] :
          forecast \in AlertForecasts }

\* The components that consume a timeline or values derived from it.
TimelineConsumers ==
  {"generate_battery_projection", "generate_alerts", "generate_recommendations",
   "calculate_energy_flow"}

PathsInit ==
  /\ pl_path \in PathNames
  /\ pl_pc = "get_system_config"
  /\ pl_world \in Worlds
  /\ pl_locals = NoLocals
  /\ pl_log = << >>
  /\ TimelineIdle
  /\ DischargeIdle
  /\ LifecycleIdle
  /\ SingletonsIdle
  /\ WeatherIdle
  /\ ForecastIdle
  /\ EnergyFlowIdle
  /\ AlertsIdle
  /\ LastIdle

PathStep(pc, locals, call) ==
  /\ pl_pc' = pc
  /\ pl_locals' = locals
  /\ pl_log' = Append(pl_log, call)
  /\ UNCHANGED <<pl_path, pl_world>>
  /\ UNCHANGED outsidePaths

\* config = get_system_config()
PathConfig ==
  /\ pl_pc = "get_system_config"
  /\ PathStep(IF pl_path = "get_predictions_bundle"
              THEN "get_blackouts_for_range" ELSE "generate_weather_data",
              [config |-> [capacityKwh |-> pl_world.capacityKwh,
                           solarCapacityKw |-> pl_world.solarCapacityKw]],
              [fn |-> "get_system_config"])

\* blackouts = get_blackouts_for_range(now, range_end): the schedules, or
\* the database's exception.
PathBlackouts ==
  /\ pl_pc = "get_blackouts_for_range"
  /\ \E ok \in BOOLEAN :
       IF ok
       THEN PathStep("generate_weather_data",
                     [key \in DOMAIN pl_locals \cup {"blackouts"} |->
                        IF key = "blackouts" THEN pl_world.blackouts ELSE pl_locals[key]],
                     [fn |-> "get_blackouts_for_range"])
       ELSE PathStep("raised", pl_locals, [fn |-> "get_blackouts_for_range"])

\* weather_data = await generate_weather_data(...)
PathWeather ==
  /\ pl_pc = "generate_weather_data"
  /\ PathStep("generate_hourly_predictions",
              [key \in DOMAIN pl_locals \cup {"weather_data"} |->
                 IF key = "weather_data" THEN [forecast |-> pl_world.forecast]
                 ELSE pl_locals[key]],
              [fn |-> "generate_weather_data"])

\* predictions = generate_hourly_predictions(weather_data["forecast"], config),
\* or its exception, which neither path catches.
PathPredict ==
  /\ pl_pc = "generate_hourly_predictions"
  /\ LET result == generate_hourly_predictions(pl_locals.weather_data.forecast,
                                               pl_world.predictions)
     IN  IF result.ok
         THEN PathStep(IF pl_path = "get_predictions_bundle"
                       THEN "apply_blackout_adjustments"
                       ELSE "build_projected_solar_timeline",
                       [key \in DOMAIN pl_locals \cup {"predictions"} |->
                          IF key = "predictions" THEN result.value ELSE pl_locals[key]],
                       [fn |-> "generate_hourly_predictions"])
         ELSE PathStep("raised", pl_locals, [fn |-> "generate_hourly_predictions"])

\* adjusted_predictions = apply_blackout_adjustments(predictions, blackouts)
PathAdjust ==
  /\ pl_pc = "apply_blackout_adjustments"
  /\ PathStep("build_projected_solar_timeline",
              [key \in DOMAIN pl_locals \cup {"adjusted_predictions"} |->
                 IF key = "adjusted_predictions"
                 THEN apply_blackout_adjustments(pl_locals.predictions, pl_locals.blackouts)
                 ELSE pl_locals[key]],
              [fn |-> "apply_blackout_adjustments"])

\* get_solar_snapshot, lines 23-29: the timeline from the predictions as
\* generated, default initial level, no blackouts; an empty timeline raises.
PathBuildSnapshot ==
  /\ pl_pc = "build_projected_solar_timeline"
  /\ pl_path = "get_solar_snapshot"
  /\ LET projected_timeline ==
           build_projected_solar_timeline(pl_locals.predictions,
                                          pl_locals.config.capacityKwh,
                                          DEFAULT_INITIAL_BATTERY_LEVEL, << >>)
         call == [fn |-> "build_projected_solar_timeline",
                  predictions |-> "predictions", blackouts |-> "None"]
     IN  IF projected_timeline = << >>
         THEN PathStep("raised", pl_locals, call)
         ELSE PathStep("generate_battery_projection",
                       [key \in DOMAIN pl_locals \cup {"timeline"} |->
                          IF key = "timeline" THEN projected_timeline
                          ELSE pl_locals[key]],
                       call)

\* get_predictions_bundle, lines 464-469: the timeline from the adjusted
\* predictions, initial level 55, the blackouts.
PathBuildBundle ==
  /\ pl_pc = "build_projected_solar_timeline"
  /\ pl_path = "get_predictions_bundle"
  /\ PathStep("generate_battery_projection",
              [key \in DOMAIN pl_locals \cup {"timeline"} |->
                 IF key = "timeline"
                 THEN build_projected_solar_timeline(pl_locals.adjusted_predictions,
                                                     pl_locals.config.capacityKwh,
                                                     55, pl_locals.blackouts)
                 ELSE pl_locals[key]],
              [fn |-> "build_projected_solar_timeline",
               predictions |-> "adjusted_predictions", blackouts |-> "blackouts"])

\* The predictions a path hands on after the forecast.
PathForecastInUse ==
  IF pl_path = "get_predictions_bundle"
  THEN pl_locals.adjusted_predictions ELSE pl_locals.predictions

\* battery_projection = generate_battery_projection(timeline, ..., capacity)
PathProjection ==
  /\ pl_pc = "generate_battery_projection"
  /\ PathStep(IF pl_path = "get_predictions_bundle"
              THEN "generate_alerts" ELSE "calculate_energy_flow",
              [key \in DOMAIN pl_locals \cup {"battery"} |->
                 IF key = "battery"
                 THEN generate_battery_projection(pl_locals.timeline, PathForecastInUse,
                                                  pl_locals.config.capacityKwh)
                 ELSE pl_locals[key]],
              [fn |-> "generate_battery_projection", timeline |-> pl_locals.timeline])

\* get_solar_snapshot, lines 37-55: metrics, energy flow of the first point, return.
PathEnergyFlow ==
  /\ pl_pc = "calculate_energy_flow"
  /\ LET current_projection == pl_locals.timeline[1]
     IN  PathStep("returned",
                  [key \in DOMAIN pl_locals \cup {"current", "metrics", "energyFlow"} |->
                     CASE key = "current" -> current_projection
                       [] key = "metrics" ->
                            calculate_system_metrics(current_projection, pl_locals.timeline)
                       [] key = "energyFlow" ->
                            calculate_energy_flow(current_projection.production,
                                                  current_projection.consumption,
                                                  pl_locals.battery.charging,
                                                  pl_locals.battery.powerFlow)
                       [] OTHER -> pl_locals[key]],
                  [fn |-> "calculate_energy_flow", timeline |-> pl_locals.timeline])

\* alerts = generate_alerts(adjusted_predictions, battery_projection, forecast, blackouts)
PathAlerts ==
  /\ pl_pc = "generate_alerts"
  /\ PathStep("generate_recommendations",
              [key \in DOMAIN pl_locals \cup {"alerts"} |->
                 IF key = "alerts"
                 THEN generate_alerts(pl_locals.adjusted_predictions, pl_locals.battery,
                                      pl_locals.weather_data.forecast,
                                      pl_locals.blackouts, 0)
                 ELSE pl_locals[key]],
              [fn |-> "generate_alerts", timeline |-> pl_locals.timeline])

\* recommendations = generate_recommendations(...), then the return
PathRecommendations ==
  /\ pl_pc = "generate_recommendations"
  /\ PathStep("returned",
              [key \in DOMAIN pl_locals \cup {"recommendations"} |->
                 IF key = "recommendations"
                 THEN generate_recommendations(pl_locals.adjusted_predictions,
                                               pl_locals.battery,
                                               pl_locals.config.solarCapacityKw,
                                               pl_locals.blackouts, pl_world.hour)
                 ELSE pl_locals[key]],
              [fn |-> "generate_recommendations", timeline |-> pl_locals.timeline])

PathsNext ==
  \/ PathConfig
  \/ PathBlackouts
  \/ PathWeather
  \/ PathPredict
  \/ PathAdjust
  \/ PathBuildSnapshot
  \/ PathBuildBundle
  \/ PathProjection
  \/ PathEnergyFlow
  \/ PathAlerts
  \/ PathRecommendations

SpecPaths == PathsInit /\ [][PathsNext]_vars

(***************************************************************************)
(* Properties of the request paths.                                        *)
(***************************************************************************)
\* The timeline the data flow Forecast -> Blackout Adjuster -> Simulator
\* yields for the collaborators' data.
AdjustedTimeline ==
  build_projected_solar_timeline(
    apply_blackout_adjustments(pl_world.predictions, pl_world.blackouts),
    pl_world.capacityKwh, DEFAULT_INITIAL_BATTERY_LEVEL, pl_world.blackouts)

\* C13: in every request path the hourly forecast passes through the
\* Blackout Adjuster before the Battery Timeline Simulator runs, so every
\* timeline handed to the Battery Projection Summarizer, the Alert Engine,
\* the Recommendation Engine or the Energy-Flow Calculator was built from
\* blackout-adjusted predictions and with the blackout windows supplied to
\* the simulator.
EveryTimelineBlackoutAdjusted ==
  \A i \in 1..Len(pl_log) :
    pl_log[i].fn \in TimelineConsumers =>
      /\ \E j \in 1..i : \E k \in j..i :
           /\ pl_log[j].fn = "apply_blackout_adjustments"
           /\ pl_log[k].fn = "build_projected_solar_timeline"
           /\ pl_log[k].predictions = "adjusted_predictions"
           /\ pl_log[k].blackouts = "blackouts"
      /\ pl_log[i].timeline = AdjustedTimeline

(***************************************************************************)
(* Configuration aggregator (system_config.py).  ratedPowerKw is counted   *)
(* in thousandths of a kW, capacityKw in hundredths; quantities are the    *)
(* positive whole numbers panel_service stores (as floats).                *)
(***************************************************************************)
MaxPanels == 2

\* DEFAULT_SYSTEM_CONFIG["solar"], the fields the aggregate also has
\* (its "spec": None is a record without fields of a panel)
DEFAULT_SOLAR ==
  [capacityKw |-> 5000, panelRatedKw |-> 550, panelCount |-> 10, strings |-> 10,
   spec |-> [none |-> TRUE]]

\* Panel documents as list_panels returns them.  The ratings keep every
\* total away from half a hundredth, where round() follows the binary float.
PanelDocs == [quantity : {1, 4, 10}, ratedPowerKw : {550, 334, 128}]

PanelInventories == UNION { [1..n -> PanelDocs] : n \in 0..MaxPanels }

\* panel.get(key) or 0 (a value of None is a key the record lacks)
OrZero(panel, key) == IF key \in DOMAIN panel THEN panel[key] ELSE 0

\* total_capacity after the first n panels, in thousandths of a kW
RECURSIVE TotalCapacity(_, _)
TotalCapacity(panels, n) ==
  IF n = 0 THEN 0
  ELSE TotalCapacity(panels, n - 1)
         + OrZero(panels[n], "quantity") * OrZero(panels[n], "ratedPowerKw")

\* Variant: every document counts as one panel.
RECURSIVE TotalCountPerDocument(_, _)
TotalCountPerDocument(panels, n) ==
  IF n = 0 THEN 0 ELSE TotalCountPerDocument(panels, n - 1) + 1

\* total_count after the first n panels: total_count += int(quantity)
RECURSIVE TotalCount(_, _)
TotalCount(panels, n) ==
  IF n = 0 THEN 0 ELSE TotalCount(panels, n - 1) + OrZero(panels[n], "quantity")

\* _aggregate_solar
_aggregate_solar(panels) ==
  IF panels = << >> THEN DEFAULT_SOLAR
  ELSE [capacityKw |-> RoundHalfEven(TotalCapacity(panels, Len(panels)), 10),
        panelRatedKw |-> panels[1].ratedPowerKw,
        panelCount |-> TotalCount(panels, Len(panels)),
        strings |-> TotalCount(panels, Len(panels)),
        spec |-> panels[1]]

ConfigInit ==
  /\ cf_pc = "called"
  /\ cf_panels \in PanelInventories
  /\ cf_solar = NoSolar
  /\ TimelineIdle
  /\ DischargeIdle
  /\ LifecycleIdle
  /\ SingletonsIdle
  /\ LaterIdle
  /\ FallbackIdle

\* "solar": _aggregate_solar(panels)
ConfigReturn ==
  /\ cf_pc = "called"
  /\ cf_solar' = _aggregate_solar(cf_panels)
  /\ cf_pc' = "returned"
  /\ UNCHANGED cf_panels
  /\ UNCHANGED <<tlVars, mlVars, dcVars, lcVars, laterVars, wfVars>>

ConfigNext == ConfigReturn

SpecConfig == ConfigInit /\ [][ConfigNext]_vars

(***************************************************************************)
(* Properties of the configuration aggregator.                             *)
(***************************************************************************)
\* The sum of f over the stored panels, by position.
RECURSIVE SumOverPanels(_, _)
SumOverPanels(f(_), positions) ==
  IF positions = {} THEN 0
  ELSE LET i == CHOOSE j \in positions : TRUE
       IN  f(cf_panels[i]) + SumOverPanels(f, positions \ {i})

PanelWatts(panel) == panel.quantity * panel.ratedPowerKw

PanelQuantity(panel) == panel.quantity

\* C21: for a non-empty inventory capacityKw is the sum of quantity x
\* ratedPowerKw over the stored panels rounded to 2 decimals and panelCount is
\* the sum of the quantities (one panel of 4 x 0.55 kW gives 2.2 kW and 4
\* panels); for an empty inventory the default bundle is returned.
AggregatedSolarIsInventorySum ==
  cf_pc = "returned" =>
    /\ cf_panels = << >> => cf_solar = DEFAULT_SOLAR
    /\ cf_panels # << >> =>
         /\ 10 * cf_solar.capacityKw - SumOverPanels(PanelWatts, DOMAIN cf_panels) \in -5..5
         /\ cf_solar.panelCount = SumOverPanels(PanelQuantity, DOMAIN cf_panels)
    /\ cf_panels = << [quantity |-> 4, ratedPowerKw |-> 550] >> =>
         cf_solar.capacityKw = 220 /\ cf_solar.panelCount = 4

\* Two stored panels whose total (4 x 0.334 + 1 x 0.128 = 1.464 kW) is
\* rounded to 1.46 kW, with 5 panels counted.
WitnessAggregatedSolar ==
  /\ cf_pc = "returned"
  /\ Len(cf_panels) = 2
  /\ cf_panels[1] = [quantity |-> 4, ratedPowerKw |-> 334]
  /\ cf_panels[2] = [quantity |-> 1, ratedPowerKw |-> 128]
  /\ cf_solar.capacityKw = 146
  /\ cf_solar.panelCount = 5

(***************************************************************************)
(* The timeline simulator on prediction lists around and beyond            *)
(* TIMELINE_HOURS entries: the same loop, started on longer lists.         *)
(***************************************************************************)
MaxExtraPredictions == 2

LongPredictionLists ==
  { LongPredictions(n, shift, tail) :
      n \in {0} \cup ((TIMELINE_HOURS - 1)..(TIMELINE_HOURS + MaxExtraPredictions)),
      shift \in 0..2,
      tail \in PredictionValues }

LongTimelineInit ==
  /\ predictions \in LongPredictionLists
  /\ battery_capacity_kwh \in Capacities
  /\ initial_battery_level \in {0, DEFAULT_INITIAL_BATTERY_LEVEL}
  /\ blackouts \in BlackoutLists
  /\ windows = _flatten_blackout_windows(blackouts)
  /\ stored_energy = InitialStoredEnergy(initial_battery_level, battery_capacity_kwh)
  /\ timeline = << >>
  /\ tl_pc = "loop"
  /\ SingletonsIdle
  /\ DischargeIdle
  /\ LifecycleIdle
  /\ LaterIdle
  /\ LastIdle

SpecLongTimeline == LongTimelineInit /\ [][TimelineNext]_vars

\* C22: build_projected_solar_timeline returns exactly min(24, number of
\* predictions) points, point i carrying the timestamp of prediction i in
\* the order of the predictions, and the points are those of the list cut
\* after its first 24 predictions: later predictions influence no point.
TimelineIsFirst24InOrder ==
  /\ Len(timeline) <= Min(24, Len(predictions))
  /\ \A i \in 1..Len(timeline) : timeline[i].timestamp = predictions[i].timestamp
  /\ tl_pc = "done" =>
       /\ Len(timeline) = Min(24, Len(predictions))
       /\ timeline = SimulateFrom(SubSeq(predictions, 1, Min(24, Len(predictions))), 1,
                                  battery_capacity_kwh,
                                  InitialStoredEnergy(initial_battery_level,
                                                      battery_capacity_kwh),
                                  _flatten_blackout_windows(blackouts))

\* A call with 26 predictions returned 24 points; the last point is hour 23
\* and the two predictions left out differ from every hour of the cycle.
WitnessTimelineCutAt24 ==
  /\ tl_pc = "done"
  /\ Len(predictions) = 26
  /\ Len(timeline) = 24
  /\ timeline[24].timestamp = 23
  /\ predictions[25].expectedProduction = 300
  /\ predictions[26].expectedProduction = 300

\* The outcome of a get_solar_snapshot request that has ended.
SnapshotEnded == pl_path = "get_solar_snapshot" /\ pl_pc \in {"raised", "returned"}

\* C23: get_solar_snapshot fails with an error and returns no snapshot
\* whenever the projected timeline is empty, which is what happens for an
\* empty weather forecast: generate_hourly_predictions skips all 24 hours,
\* returns no prediction, and the empty timeline makes the request raise;
\* for a non-empty forecast the generator produces 24 predictions and the
\* snapshot's `current` is the first timeline point.
SnapshotFailsOnEmptyTimeline ==
  SnapshotEnded =>
    IF pl_world.forecast = << >>
    THEN /\ pl_pc = "raised"
         /\ "predictions" \in DOMAIN pl_locals
         /\ pl_locals.predictions = << >>
         /\ pl_log[Len(pl_log)].fn = "build_projected_solar_timeline"
    ELSE /\ pl_pc = "returned"
         /\ Len(pl_locals.predictions) = 24
         /\ pl_locals.timeline # << >>
         /\ pl_locals.current = pl_locals.timeline[1]

(***************************************************************************)
(* More properties of the Blackout Adjuster.                               *)
(***************************************************************************)
\* The valid intervals [start, end) of the schedules handed to the adjuster
\* that contain the timestamp, read off the schedule list itself.
MatchingIntervals(timestamp) ==
  { iv \in UNION { { fc_blackouts[s].intervals[k] :
                       k \in 1..Len(fc_blackouts[s].intervals) } :
                   s \in 1..Len(fc_blackouts) } :
      iv.start < iv.end /\ iv.start <= timestamp /\ timestamp < iv.end }

\* Some schedule has a valid interval.
SomeValidInterval ==
  \E s \in 1..Len(fc_blackouts) : \E k \in 1..Len(fc_blackouts[s].intervals) :
    fc_blackouts[s].intervals[k].start < fc_blackouts[s].intervals[k].end

\* C24: with a non-empty window set apply_blackout_adjustments returns a
\* list of the same length and order as its input; a prediction whose
\* timestamp lies in no window [start, end) is the unmodified input element;
\* a prediction lying in one or more windows is adjusted exactly once
\* (production x 0.85, consumption x 0.60, to the hundredth) and its
\* blackoutImpact is taken from the earliest-starting matching window only,
\* also when windows of different schedules overlap.
AdjustedOnceByEarliestWindow ==
  (fc_pc = "adjusted" /\ SomeValidInterval) =>
    /\ Len(fc_adjusted) = Len(fc_predictions)
    /\ \A i \in 1..Len(fc_predictions) :
         LET before == fc_predictions[i]
             after == fc_adjusted[i]
             matching == MatchingIntervals(before.timestamp)
         IN  /\ after.timestamp = before.timestamp
             /\ matching = {} => after = before
             /\ matching # {} =>
                  /\ Abs(100 * after.expectedProduction - 85 * before.expectedProduction)
                       <= 5000
                  /\ Abs(100 * after.expectedConsumption - 60 * before.expectedConsumption)
                       <= 5000
                  /\ "blackoutImpact" \in DOMAIN after
                  /\ \A iv \in matching : after.blackoutImpact.intervalStart <= iv.start
                  /\ \E iv \in matching :
                       /\ iv.start = after.blackoutImpact.intervalStart
                       /\ iv.end = after.blackoutImpact.intervalEnd

\* Two schedules overlap on a prediction with production: it was adjusted
\* with the impact of the window that starts first although that window
\* comes second in the schedule list, and another prediction of the list
\* lies in no window and came back as it was.
WitnessAdjustedOnce ==
  /\ fc_pc = "adjusted"
  /\ Len(fc_blackouts) = 2
  /\ \E i, j \in 1..Len(fc_adjusted) :
       /\ Cardinality(MatchingIntervals(fc_predictions[i].timestamp)) = 2
       /\ fc_predictions[i].expectedProduction > 0
       /\ fc_adjusted[i].expectedProduction < fc_predictions[i].expectedProduction
       /\ fc_adjusted[i].blackoutImpact.intervalStart
            = fc_blackouts[2].intervals[1].start
       /\ fc_adjusted[i].blackoutImpact.intervalStart
            < fc_blackouts[1].intervals[1].start
       /\ MatchingIntervals(fc_predictions[j].timestamp) = {}
       /\ fc_adjusted[j] = fc_predictions[j]

(***************************************************************************)
(* The planned-blackout alert.                                             *)
(***************************************************************************)
\* The valid intervals of the schedules given to generate_alerts that start
\* strictly after `now`, read off the schedule list itself.
FutureIntervals ==
  { iv \in UNION { { al_args.blackouts[s].intervals[k] :
                       k \in 1..Len(al_args.blackouts[s].intervals) } :
                   s \in 1..Len(al_args.blackouts) } :
      iv.start < iv.end /\ iv.start > al_args.now }

\* The one among them that starts first.
NearestFutureInterval ==
  CHOOSE iv \in FutureIntervals : \A other \in FutureIntervals : iv.start <= other.start

\* C25: generate_alerts emits at most one planned-blackout alert; it is for
\* the window with the earliest start strictly after the current time, and
\* there is none if no window starts in the future; its severity is
\* critical if that window's duration (end - start) exceeds 180 minutes and
\* warning otherwise.
PlannedBlackoutAlertRule ==
  al_pc = "returned" =>
    /\ Cardinality(AlertPositions("planned-blackout")) <= 1
    /\ FutureIntervals = {} <=> AlertPositions("planned-blackout") = {}
    /\ \A i \in AlertPositions("planned-blackout") :
         /\ al_alerts[i].start = NearestFutureInterval.start
         /\ al_alerts[i].type =
              IF NearestFutureInterval.end - NearestFutureInterval.start > 2 * 180
              THEN "critical" ELSE "warning"

(***************************************************************************)
(* Upstream calls of both kinds: a run is either a run of the weather      *)
(* service or a run of the discharge-time estimator.                       *)
(***************************************************************************)
UpstreamsNext ==
  \/ dc_pc = "idle" /\ WeatherNext
  \/ DischargeNext

SpecUpstreams == (WeatherInit \/ DischargeInit) /\ [][UpstreamsNext]_vars

\* A logged point-prediction call failed: its upstream failed or its model
\* is not loaded.
PredictionCallFailed(call) ==
  \/ /\ call.fn = "predict_for_specific_hours"
     /\ ~call.ok \/ ~ml_model_service.model_loaded
  \/ /\ call.fn = "predict_consumption_for_specific_hours"
     /\ ~call.ok \/ ~ml_consumption_service.model_loaded

FoldArguments ==
  /\ battery_capacity_kwh > 0
  /\ 0 <= initial_battery_level /\ initial_battery_level <= 100

\* The level before point i, in hundredths of a percent.
LevelBefore(i) ==
  IF i = 1 THEN 100 * initial_battery_level ELSE timeline[i - 1].batteryLevel

\* What holds of the stored energy in every state (C27).
StoredEnergyInRange ==
  FoldArguments => 0 <= stored_energy /\ stored_energy <= battery_capacity_kwh

\* What holds of every iteration (C27): the point's batteryDelta is the
\* change of the stored energy, its batteryLevel is 100 x stored / capacity
\* as it stands, which is the level before plus 100 x change / capacity (to
\* the hundredth of a percent that both levels are rounded to).
StoredEnergyIsRunningSum ==
  (FoldArguments /\ Len(timeline') = Len(timeline) + 1) =>
    LET point == timeline'[Len(timeline')]
        change == stored_energy' - stored_energy
    IN  /\ point.batteryDelta = Round2(change)
        /\ point.batteryLevel
             = RoundHalfEven(stored_energy' * 10000, battery_capacity_kwh)
        /\ Abs(point.batteryLevel * battery_capacity_kwh
                 - LevelBefore(Len(timeline')) * battery_capacity_kwh
                 - 10000 * change) <= battery_capacity_kwh

\* C27: for capacity > 0 and an initial level within [0, 100] the stored
\* energy after every hour is the stored energy before it plus that hour's
\* batteryDelta and stays within [0, capacity]; each point's batteryLevel is
\* the previous level plus 100 x batteryDelta / capacity, and the clamp to
\* [0, 100] never changes it.
StoredEnergyFold == []StoredEnergyInRange /\ [][StoredEnergyIsRunningSum]_vars

\* From 50 % a deficit hour emptied the battery and imported the rest, and a
\* later surplus hour filled it and exported the rest.
WitnessStoredEnergyFold ==
  /\ initial_battery_level = 50
  /\ stored_energy = battery_capacity_kwh
  /\ \E i, j \in 1..Len(timeline) :
       /\ i < j
       /\ timeline[i].batteryLevel = 0
       /\ timeline[i].batteryDelta < 0
       /\ timeline[i].gridImport > 0
       /\ timeline[j].batteryLevel = 100 * 100
       /\ timeline[j].batteryDelta > 0
       /\ timeline[j].gridExport > 0

\* ---------------------------------------------------------------------
\* The energy flow of a snapshot against its first timeline point
\* ---------------------------------------------------------------------

SnapshotReturned ==
  /\ pl_path = "get_solar_snapshot"
  /\ pl_pc = "returned"

\* The battery leg of the flow: solarToBattery while the projection says
\* charging, batteryToLoad otherwise.
BatteryLeg(flow, charging) ==
  IF charging THEN flow.solarToBattery ELSE flow.batteryToLoad

PointSigns(point) ==
  /\ point.gridExport >= 0
  /\ point.gridImport >= 0
  /\ ~(point.gridExport > 0 /\ point.gridImport > 0)
  /\ point.production >= point.consumption => point.batteryDelta >= 0
  /\ point.production < point.consumption => point.batteryDelta <= 0

\* C29: for capacity > 0 and an initial level within [0, 100], in every
\* timeline point gridExport and gridImport are >= 0 and never both positive,
\* batteryDelta is >= 0 whenever production >= consumption and <= 0 whenever
\* production < consumption.
TimelinePointSigns ==
  FoldArguments => \A i \in 1..Len(timeline) : PointSigns(timeline[i])

\* From a full battery: a surplus hour that exported everything (batteryDelta
\* 0), then a deficit hour served by the battery, then a surplus hour that
\* recharged it.
WitnessTimelinePointSigns ==
  /\ FoldArguments
  /\ initial_battery_level = 100
  /\ \E i, j, k \in 1..Len(timeline) :
       /\ i < j /\ j < k
       /\ timeline[i].production > timeline[i].consumption
       /\ timeline[i].batteryDelta = 0
       /\ timeline[i].gridExport > 0
       /\ timeline[j].production < timeline[j].consumption
       /\ timeline[j].batteryDelta < 0
       /\ timeline[k].production > timeline[k].consumption
       /\ timeline[k].batteryDelta > 0

(***************************************************************************)
(* get_weather_with_fallback (weather_service.py:343-360): Open-Meteo      *)
(* first; on any exception generate_weather_data, whose result is          *)
(* relabelled and returned.                                                *)
(***************************************************************************)
\* What fetch_open_meteo_weather can end in: its dictionary, a transport or
\* timeout error, an HTTP error status, or a payload without its fields.
OpenMeteoOutcomes == {"ok", "network_error", "http_error", "malformed"}

\* The dictionary fetch_open_meteo_weather returns.
OpenMeteoWeather ==
  [kind |-> "live", provider |-> "Open-Meteo API",
   description |-> "description of the weather code",
   locationName |-> "location_name"]

SIMULATED_PROVIDER == "Datos simulados (Open-Meteo no disponible)"

\* dict.update: the keys of `updates` replace or extend those of `dict`.
DictUpdate(dict, updates) ==
  [key \in DOMAIN dict \cup DOMAIN updates |->
     IF key \in DOMAIN updates THEN updates[key] ELSE dict[key]]

\* What an earlier request may have left in the provider cache.
EarlierSnapshots ==
  {NoSnapshot} \cup { [raw |-> raw, fetchedAt |-> 0] : raw \in Payloads }

FallbackInit ==
  /\ wf_pc = "fetch_open_meteo_weather"
  /\ wf_weather = NoWeather
  /\ OPENWEATHER_API_KEY \in {"None", "key"}
  /\ _cached_snapshot \in
       (IF OPENWEATHER_API_KEY = "key" THEN EarlierSnapshots ELSE {NoSnapshot})
  /\ utcnow = 0
  /\ wx_calls = [c \in WxCallers |-> NoCall]
  /\ TimelineIdle
  /\ DischargeIdle
  /\ LifecycleIdle
  /\ SingletonsIdle
  /\ ForecastIdle
  /\ EnergyFlowIdle
  /\ AlertsIdle
  /\ PathsIdle
  /\ ConfigIdle

\* return await fetch_open_meteo_weather(...), or its exception caught.
WfOpenMeteo ==
  /\ wf_pc = "fetch_open_meteo_weather"
  /\ \E outcome \in OpenMeteoOutcomes :
       IF outcome = "ok"
       THEN /\ wf_pc' = "returned"
            /\ wf_weather' = OpenMeteoWeather
       ELSE /\ wf_pc' = "generate_weather_data"
            /\ wf_weather' = wf_weather
  /\ UNCHANGED <<tlVars, mlVars, dcVars, lcVars, laterVars, cfVars>>

\* mock_weather = await generate_weather_data(capacity_kw): the call starts.
WfGenerate ==
  /\ wf_pc = "generate_weather_data"
  /\ wx_calls[1].pc = "idle"
  /\ WxCheck(1)
  /\ wx_calls'[1].entry = "generate_weather_data"

\* ... its provider request ends.
WfAwaitGet ==
  /\ wf_pc = "generate_weather_data"
  /\ WxGet(1)

\* ... and its response is read.
WfAwaitStore ==
  /\ wf_pc = "generate_weather_data"
  /\ WxStore(1)

\* mock_weather.update({...}); return mock_weather
WfReturn ==
  /\ wf_pc = "generate_weather_data"
  /\ wx_calls[1].pc = "done"
  /\ wf_weather' = DictUpdate(wx_calls[1].result,
                              [provider |-> SIMULATED_PROVIDER,
                               locationName |-> "location_name",
                               lastUpdated |-> utcnow])
  /\ wf_pc' = "returned"
  /\ UNCHANGED <<tlVars, mlVars, dcVars, lcVars, laterVars, cfVars>>

FallbackNext ==
  \/ WfOpenMeteo
  \/ WfGenerate
  \/ WfAwaitGet
  \/ WfAwaitStore
  \/ WfReturn
  \/ WxTick

SpecFallback == FallbackInit /\ [][FallbackNext]_vars

\* C30: whenever get_weather_with_fallback returns a snapshot whose provider
\* label says the data is simulated, its values and forecast were produced
\* by the synthetic fallback generator and not fetched from a live provider.
SimulatedLabelMeansSynthetic ==
  (wf_pc = "returned" /\ wf_weather.provider = SIMULATED_PROVIDER)
    => wf_weather.kind = "fallback"

====
